---- MODULE Spec2Model ----
(***************************************************************************)
(* Model of src/app.py: the query builder and the response normaliser     *)
(* (build_books_query, get_book_data), the listing endpoints that use     *)
(* them (search_books, related_books, get_books_by_section,               *)
(* api_shelf_books), the login and the shelves API.                       *)
(*                                                                         *)
(* Python str values are TLA+ strings; a character is a string of length  *)
(* one, read with Ch(s, i).                                                *)
(***************************************************************************)
EXTENDS Integers, Sequences, FiniteSets, TLC

VARIABLES
    raw_query,   \* the argument of build_books_query / the q argument of the request
    pc,          \* position of the query-side call
    q_string,    \* first component returned by build_books_query
    params,      \* second component returned by build_books_query (ordered dict)
    api_url,     \* URL search_books hands to fetch_api_data
    item,        \* the catalog item handed to get_book_data
    bpc,         \* position of the normaliser-side call
    book,        \* what get_book_data returned (or that it raised)
    calls,       \* the helpers the request has called so far, in order
    response,    \* the HTTP response of the last request served
    route,       \* the handler serving the last request
    args,        \* the arguments of that request
    lpc,         \* position of get_books_by_section in its request
    books,       \* the books list of get_books_by_section
    idx,         \* index of the curated pair get_books_by_section is at
    data,        \* the document fetch_api_data handed to search_books or related_books
    users,       \* table users
    shelves,     \* table shelves
    shelf_books, \* table shelf_books
    shelf_seq,   \* the last id the shelves id sequence gave out
    current_user \* id of the user the session is logged in as, "" for none

vars == <<raw_query, pc, q_string, params, api_url, item, bpc, book,
          calls, response, route, args, lpc, books, idx, data,
          users, shelves, shelf_books, shelf_seq, current_user>>

qvars == <<raw_query, pc, q_string, params, api_url>>
bvars == <<item, bpc, book>>
hvars == <<calls, response, data>>
lvars == <<route, args, lpc, books, idx>>
dvars == <<users, shelves, shelf_books, shelf_seq, current_user>>

\* No request served yet.
NoResponse == [status |-> 0]
NoArgs == <<>>

\* The parts of the state a run leaves alone from its first state on.
NoData == [kind |-> "none"]
IdleHttp == calls = <<>> /\ response = NoResponse /\ data = NoData
IdleListing == route = "none" /\ args = NoArgs /\ lpc = "idle" /\ books = <<>> /\ idx = 0
IdleDb ==
    /\ users = {} /\ shelves = {} /\ shelf_books = <<>>
    /\ shelf_seq = 0 /\ current_user = ""

\* ------------------------------------------------------------------ bounds

\* Longest run of fragments a typed query is assembled from.
MaxFrags == 3

\* ------------------------------------------------------- Python str methods

Ch(s, i) == SubSeq(s, i, i)

Quote == "\""

\* str.isspace() / the pattern class \s, on the characters of the model.
IsSpace(c) == c \in {" ", "\t", "\n"}

\* The pattern class '.', which re.match compiles without DOTALL.
IsDot(c) == Len(c) = 1 /\ c # "\n"

\* str.isdigit()
isdigit(c) == c \in {"0", "1", "2", "3", "4", "5", "6", "7", "8", "9"}

UpperCase == <<"A", "B", "C", "D", "E", "F", "G", "H", "I", "J", "K", "L", "M",
               "N", "O", "P", "Q", "R", "S", "T", "U", "V", "W", "X", "Y", "Z">>
LowerCase == <<"a", "b", "c", "d", "e", "f", "g", "h", "i", "j", "k", "l", "m",
               "n", "o", "p", "q", "r", "s", "t", "u", "v", "w", "x", "y", "z">>

lower_char(c) ==
    IF \E k \in 1..26 : UpperCase[k] = c
    THEN LowerCase[CHOOSE k \in 1..26 : UpperCase[k] = c]
    ELSE c

upper_char(c) ==
    IF \E k \in 1..26 : LowerCase[k] = c
    THEN UpperCase[CHOOSE k \in 1..26 : LowerCase[k] = c]
    ELSE c

RECURSIVE lower(_)
lower(s) == IF s = "" THEN "" ELSE lower_char(Head(s)) \o lower(Tail(s))

\* str.strip()
strip(s) ==
    LET keep == {i \in 1..Len(s) : ~IsSpace(Ch(s, i))}
    IN  IF keep = {} THEN ""
        ELSE SubSeq(s, CHOOSE i \in keep : \A j \in keep : i <= j,
                       CHOOSE i \in keep : \A j \in keep : j <= i)

\* tok in s
contains(s, tok) ==
    \E i \in 0..(Len(s) - Len(tok)) : SubSeq(s, i + 1, i + Len(tok)) = tok

\* str.isdigit() of a whole string: false for the empty string.
str_isdigit(s) == s # "" /\ \A i \in 1..Len(s) : isdigit(Ch(s, i))

\* ------------------------------------------------------------- re.match
\* The two patterns of build_books_query have the same eleven elements,
\*     \s* "? (.+?) "? \s[*+] SEP \s[*+] "? (.+?) "? \s* $
\* and differ in the separator SEP ('by' under re.IGNORECASE, or ','), and in
\* whether the white space around it is \s+ or \s*.
\*
\* ok_X(q, p, K) says whether element X followed by the rest K of the pattern
\* matches q from position p. at_X(q, p, K) is where X stops in the match the
\* backtracking matcher of re returns: it tries X's alternatives in X's order
\* (greedy: longest first; lazy: shortest first) and keeps the first after
\* which the rest matches.

NoMatch == [ok |-> FALSE, groups |-> <<>>]

\* '$' (without MULTILINE): the end, or just before a final newline.
ok_end(q, p) == p = Len(q) + 1 \/ (p = Len(q) /\ Ch(q, p) = "\n")

\* '"?' : greedy.
ok_opt_quote(q, p, K(_)) == (p <= Len(q) /\ Ch(q, p) = Quote /\ K(p + 1)) \/ K(p)
at_opt_quote(q, p, K(_)) == IF p <= Len(q) /\ Ch(q, p) = Quote /\ K(p + 1) THEN p + 1 ELSE p

\* '\s*' (least = 0) and '\s+' (least = 1): greedy.
RECURSIVE space_run(_, _)
space_run(q, p) ==   \* how many white-space characters follow from p
    IF p <= Len(q) /\ IsSpace(Ch(q, p)) THEN 1 + space_run(q, p + 1) ELSE 0
space_runs(q, p, least) == least..space_run(q, p)
ok_spaces(q, p, least, K(_)) == \E k \in space_runs(q, p, least) : K(p + k)
at_spaces(q, p, least, K(_)) ==
    LET good == {k \in space_runs(q, p, least) : K(p + k)}
    IN  p + (CHOOSE k \in good : \A j \in good : j <= k)

\* '(.+?)' : lazy; at_lazy_group is the index of the last character captured.
RECURSIVE dot_run(_, _)
dot_run(q, p) ==     \* how many characters '.' matches follow from p
    IF p <= Len(q) /\ IsDot(Ch(q, p)) THEN 1 + dot_run(q, p + 1) ELSE 0
dot_runs(q, p) == p..(p + dot_run(q, p) - 1)
ok_lazy_group(q, p, K(_)) == \E e \in dot_runs(q, p) : K(e + 1)
at_lazy_group(q, p, K(_)) ==
    LET good == {e \in dot_runs(q, p) : K(e + 1)}
    IN  CHOOSE e \in good : \A j \in good : e <= j

\* The separator, a literal; with re.IGNORECASE the lowered texts are compared.
ok_literal(q, p, lit, ignorecase, K(_)) ==
    /\ p + Len(lit) - 1 <= Len(q)
    /\ IF ignorecase
       THEN lower(SubSeq(q, p, p + Len(lit) - 1)) = lower(lit)
       ELSE SubSeq(q, p, p + Len(lit) - 1) = lit
    /\ K(p + Len(lit))

\* The pattern from its n-th element on.
tail11(q, p) == ok_spaces(q, p, 0, LAMBDA x : ok_end(q, x))
tail10(q, p) == ok_opt_quote(q, p, LAMBDA x : tail11(q, x))
tail9(q, p)  == ok_lazy_group(q, p, LAMBDA x : tail10(q, x))
tail8(q, p)  == ok_opt_quote(q, p, LAMBDA x : tail9(q, x))
tail7(q, p, least) == ok_spaces(q, p, least, LAMBDA x : tail8(q, x))
tail6(q, p, sep, ic, least) == ok_literal(q, p, sep, ic, LAMBDA x : tail7(q, x, least))
tail5(q, p, sep, ic, least) == ok_spaces(q, p, least, LAMBDA x : tail6(q, x, sep, ic, least))
tail4(q, p, sep, ic, least) == ok_opt_quote(q, p, LAMBDA x : tail5(q, x, sep, ic, least))
tail3(q, p, sep, ic, least) == ok_lazy_group(q, p, LAMBDA x : tail4(q, x, sep, ic, least))
tail2(q, p, sep, ic, least) == ok_opt_quote(q, p, LAMBDA x : tail3(q, x, sep, ic, least))
tail1(q, p, sep, ic, least) == ok_spaces(q, p, 0, LAMBDA x : tail2(q, x, sep, ic, least))

\* re.match of the pattern with separator sep: the match object, with the
\* (first, last) indices of group 1 and group 2.
re_match(q, sep, ic, least) ==
    IF ~tail1(q, 1, sep, ic, least) THEN NoMatch
    ELSE LET p2 == at_spaces(q, 1, 0, LAMBDA x : tail2(q, x, sep, ic, least))
             p3 == at_opt_quote(q, p2, LAMBDA x : tail3(q, x, sep, ic, least))
             e1 == at_lazy_group(q, p3, LAMBDA x : tail4(q, x, sep, ic, least))
             p5 == at_opt_quote(q, e1 + 1, LAMBDA x : tail5(q, x, sep, ic, least))
             p6 == at_spaces(q, p5, least, LAMBDA x : tail6(q, x, sep, ic, least))
             p7 == p6 + Len(sep)
             p8 == at_spaces(q, p7, least, LAMBDA x : tail8(q, x))
             p9 == at_opt_quote(q, p8, LAMBDA x : tail9(q, x))
             e2 == at_lazy_group(q, p9, LAMBDA x : tail10(q, x))
         IN  [ok |-> TRUE, groups |-> << <<p3, e1>>, <<p9, e2>> >>]

\* Faulty variant: the 'by' pattern without re.IGNORECASE.
re_match_by_case_sensitive(q) == re_match(q, "by", FALSE, 1)

\* re.match(r'\s*"?(.+?)"?\s+by\s+"?(.+?)"?\s*$', q, flags=re.IGNORECASE)
re_match_by(q) == re_match(q, "by", TRUE, 1)

\* Faulty variant: the comma pattern with \s+ around the comma.
re_match_comma_spaced(q) == re_match(q, ",", FALSE, 1)

\* re.match(r'\s*"?(.+?)"?\s*,\s*"?(.+?)"?\s*$', q)
re_match_comma(q) == re_match(q, ",", FALSE, 0)

\* m.group(n)
group(q, m, n) == SubSeq(q, m.groups[n][1], m.groups[n][2])

\* ------------------------------------------------------- build_books_query

FieldTokens == <<"intitle:", "inauthor:", "isbn:", "subject:">>

\* Faulty variant: the tokens are looked for in q as typed, not in lowered.
has_field_token_case_sensitive(q) ==
    \E k \in 1..Len(FieldTokens) : contains(q, FieldTokens[k])

\* any(tok in lowered for tok in (...))
has_field_token(q) ==
    LET lowered == lower(q)
    IN  \E k \in 1..Len(FieldTokens) : contains(lowered, FieldTokens[k])

\* Faulty variant: only the digits are kept, no X.
RECURSIVE isbn_digits_no_x(_)
isbn_digits_no_x(q) ==
    IF q = "" THEN ""
    ELSE (IF isdigit(Head(q)) THEN Head(q) ELSE "") \o isbn_digits_no_x(Tail(q))

\* ''.join(ch for ch in q if ch.isdigit() or ch.upper() == 'X')
RECURSIVE isbn_digits(_)
isbn_digits(q) ==
    IF q = "" THEN ""
    ELSE (IF isdigit(Head(q)) \/ upper_char(Head(q)) = "X" THEN Head(q) ELSE "")
         \o isbn_digits(Tail(q))

\* len(digits) in (10, 13) and digits[:-1].isdigit()
\*   and (digits[-1].isdigit() or digits[-1].upper() == 'X')
looks_like_isbn(digits) ==
    /\ Len(digits) \in {10, 13}
    /\ str_isdigit(SubSeq(digits, 1, Len(digits) - 1))
    /\ (isdigit(Ch(digits, Len(digits))) \/ upper_char(Ch(digits, Len(digits))) = "X")

\* f'intitle:"{title}"+inauthor:"{author}"'
title_author_query(title, author) ==
    "intitle:" \o Quote \o title \o Quote \o "+inauthor:" \o Quote \o author \o Quote

\* Faulty variant: the default form without the raw term after the title.
default_query_title_only(q) == "intitle:" \o Quote \o q \o Quote

\* f'intitle:"{q}"+{q}'
default_query(q) == "intitle:" \o Quote \o q \o Quote \o "+" \o q

\* The params dict, in insertion order.
query_params(q) ==
    << <<"q", q>>, <<"maxResults", "40">>, <<"projection", "full">>,
       <<"orderBy", "newest">>, <<"printType", "books">> >>

\* Faulty variant: the ISBN test comes before the field-token test.
build_books_query_isbn_first(raw) ==
    LET q      == strip(raw)
        digits == isbn_digits(q)
        m      == re_match_by(q)
        m2     == re_match_comma(q)
    IN  IF looks_like_isbn(digits) THEN <<"isbn:" \o digits, query_params(q)>>
        ELSE IF has_field_token(q) THEN <<q, query_params(q)>>
        ELSE IF m.ok
             THEN <<title_author_query(strip(group(q, m, 1)), strip(group(q, m, 2))),
                    query_params(q)>>
        ELSE IF m2.ok
             THEN <<title_author_query(strip(group(q, m2, 1)), strip(group(q, m2, 2))),
                    query_params(q)>>
        ELSE <<default_query(q), query_params(q)>>

\* Returns <<q_string, params>>.
build_books_query(raw) ==
    LET q      == strip(raw)
        digits == isbn_digits(q)
        m      == re_match_by(q)
        m2     == re_match_comma(q)
    IN  IF has_field_token(q) THEN <<q, query_params(q)>>
        ELSE IF looks_like_isbn(digits) THEN <<"isbn:" \o digits, query_params(q)>>
        ELSE IF m.ok
             THEN <<title_author_query(strip(group(q, m, 1)), strip(group(q, m, 2))),
                    query_params(q)>>
        ELSE IF m2.ok
             THEN <<title_author_query(strip(group(q, m2, 1)), strip(group(q, m2, 2))),
                    query_params(q)>>
        ELSE <<default_query(q), query_params(q)>>

\* ------------------------------------------------------------ search_books

\* Characters urllib's quote never encodes, plus its default safe='/'.
QuoteSafe ==
    {UpperCase[k] : k \in 1..26} \cup {LowerCase[k] : k \in 1..26}
    \cup {"0", "1", "2", "3", "4", "5", "6", "7", "8", "9"}
    \cup {"_", ".", "-", "~", "/"}

\* '%XX' of the other characters of the model.
PercentCode ==
    (" " :> "%20") @@ ("\t" :> "%09") @@ ("\n" :> "%0A") @@ (Quote :> "%22")
    @@ ("+" :> "%2B") @@ ("," :> "%2C") @@ (":" :> "%3A") @@ ("&" :> "%26")
    @@ ("=" :> "%3D") @@ ("?" :> "%3F") @@ ("%" :> "%25") @@ ("#" :> "%23")

\* requests.utils.quote(s)
RECURSIVE quote(_)
quote(s) ==
    IF s = "" THEN ""
    ELSE (IF Head(s) \in QuoteSafe THEN Head(s) ELSE PercentCode[Head(s)])
         \o quote(Tail(s))

\* Faulty variant: every entry of extra is appended, q included.
RECURSIVE extra_params_with_q(_)
extra_params_with_q(extra) ==
    IF extra = <<>> THEN ""
    ELSE "&" \o Head(extra)[1] \o "=" \o Head(extra)[2]
         \o extra_params_with_q(Tail(extra))

\* for k, v in extra.items(): if k != 'q': api_url += f"&{k}={v}"
RECURSIVE extra_params(_)
extra_params(extra) ==
    IF extra = <<>> THEN ""
    ELSE (IF Head(extra)[1] # "q"
          THEN "&" \o Head(extra)[1] \o "=" \o Head(extra)[2]
          ELSE "")
         \o extra_params(Tail(extra))

\* The api_url search_books builds from build_books_query's result.
search_url(qs, extra, key) ==
    "https://www.googleapis.com/books/v1/volumes?q=" \o quote(qs)
    \o extra_params(extra)
    \o (IF key # "" THEN "&key=" \o key ELSE "")

\* ------------------------------------------------------------------ inputs

\* Pieces a typed query is assembled from.
Frags ==
    {"isbn:", "978014044", "1", "9136", "X", " by ", ",", " ", "Dune", Quote}

RECURSIVE Concats(_)
Concats(n) ==
    IF n = 0 THEN {""}
    ELSE LET P == Concats(n - 1) IN P \cup {p \o f : p \in P, f \in Frags}

\* Two quoted or unquoted parts around a separator.
OptQuotes == {"", Quote}
Parts == {"", "Dune", "Frank Herbert", " "}
Separators == {" by ", " BY ", "  bY  ", "\nby\t", " by", ", ", ",", " , ", " by , "}

QuotedQueries ==
    {o1 \o t \o c1 \o sep \o o2 \o a \o c2 :
        o1 \in OptQuotes, t \in Parts, c1 \in OptQuotes, sep \in Separators,
        o2 \in OptQuotes, a \in Parts, c2 \in OptQuotes}

\* A field token, or a near miss of one, inside other text.
TokenQueries ==
    {a \o t \o b :
        a \in {"", " ", "Dune by ", "978014044"},
        t \in {"intitle:", "inauthor:", "isbn:", "subject:", "InTitle:", "ISBN:",
               "intitle", "title:", "isbn :"},
        b \in {"", "Dune", "1", ", x", " "}}

\* Text with a line break inside.
MultilineQueries ==
    {a \o "\n" \o b : a \in {"Dune", "Dune by x", "a,"}, b \in {"by Frank", "b, c", "x by y"}}

\* Digits with hyphens, spaces and X or x in various places.
IsbnQueries ==
    {a \o d \o b :
        a \in {"", "x", "X ", "call "},
        d \in {"978014044", "0-8044-2957-", "978 0140 4491", "555-0140-44"},
        b \in {"", "x", "X", "1", "36", "Xx", " x", ", by 1", "0, x"}}

RawQueries ==
    Concats(MaxFrags) \cup QuotedQueries \cup TokenQueries \cup MultilineQueries
    \cup IsbnQueries

\* Values of the module-level GOOGLE_BOOKS_API_KEY (os.getenv): unset, or a key.
ApiKeys == {"", "KEY"}

\* The catalog item of the query-side runs, which never read it.
NoItem == [kind |-> "none"]

\* ------------------------------------------------------- query-side actions

InitQuery ==
    /\ raw_query \in RawQueries
    /\ pc = "start"
    /\ q_string = ""
    /\ params = <<>>
    /\ api_url = ""
    /\ item = NoItem
    /\ bpc = "idle"
    /\ book = NoItem
    /\ IdleHttp
    /\ IdleListing
    /\ IdleDb

\* A direct call build_books_query(raw_query).
BuildBooksQuery ==
    /\ pc = "start"
    /\ \E r \in {build_books_query(raw_query)} :
           /\ q_string' = r[1]
           /\ params' = r[2]
    /\ pc' = "built"
    /\ calls' = <<[fn |-> "build_books_query"]>>
    /\ UNCHANGED <<raw_query, api_url, response, data>>
    /\ UNCHANGED <<bvars, lvars, dvars>>

\* Faulty variant: the q argument is taken as typed.
search_query_unstripped(raw) == raw

\* query = request.args.get('q', '').strip()
search_query(raw) == strip(raw)

\* GET /api/books/search?q=raw_query, up to the call of fetch_api_data.
SearchBooks ==
    /\ pc = "start"
    /\ route = "none"
    /\ \E query \in {search_query(raw_query)} :
           IF query = ""
           THEN /\ pc' = "empty"
                /\ response' = [status |-> 200, body |-> <<>>]
                /\ calls' = <<>>
                /\ UNCHANGED <<q_string, params, api_url>>
           ELSE \E r \in {build_books_query(query)} :
                    /\ q_string' = r[1]
                    /\ params' = r[2]
                    /\ \E key \in ApiKeys : api_url' = search_url(r[1], r[2], key)
                    /\ pc' = "fetching"
                    /\ calls' = <<[fn |-> "build_books_query"]>>
                    /\ response' = NoResponse
    /\ route' = "search_books"
    /\ args' = [q |-> raw_query]
    /\ data' = NoData
    /\ UNCHANGED <<raw_query, lpc, books, idx>>
    /\ UNCHANGED <<bvars, dvars>>

NextQuery == BuildBooksQuery \/ SearchBooks

SpecQuery == InitQuery /\ [][NextQuery]_vars

\* ------------------------------------------------------------- JSON values
\* A value of a decoded JSON document, tagged with its Python type. A dict is
\* a function whose domain is the keys present; an absent key has no entry.

Absent  == [kind |-> "absent"]       \* only as "this key is not in the dict"
Null    == [kind |-> "null"]         \* None
Str(s)  == [kind |-> "str", val |-> s]
Num(n)  == [kind |-> "num", val |-> n]
List(l) == [kind |-> "list", val |-> l]
Dict(d) == [kind |-> "dict", val |-> d]
EmptyDict == Dict(<<>>)

\* A dict from a sequence of <<key, value>> pairs, leaving out the Absent ones.
MakeDict(pairs) ==
    LET here == {i \in 1..Len(pairs) : pairs[i][2] # Absent}
    IN  Dict([k \in {pairs[i][1] : i \in here} |->
                 pairs[CHOOSE i \in here : pairs[i][1] = k][2]])

\* bool(v)
truthy(v) ==
    CASE v.kind = "null" -> FALSE
      [] v.kind = "str"  -> v.val # ""
      [] v.kind = "num"  -> v.val # 0
      [] v.kind = "list" -> v.val # <<>>
      [] v.kind = "dict" -> DOMAIN v.val # {}

\* a or b
py_or(a, b) == IF truthy(a) THEN a ELSE b

\* Whether v.get exists: only a dict has it, anything else raises AttributeError.
has_get(v) == v.kind = "dict"

\* d.get(key, default) and d.get(key), for a dict d
get_default(d, key, default) == IF key \in DOMAIN d.val THEN d.val[key] ELSE default
get(d, key) == get_default(d, key, Null)

\* str(v) as an f-string formats it, for the values an id takes in the model.
py_str(v) ==
    CASE v.kind = "str"  -> v.val
      [] v.kind = "null" -> "None"
      [] v.kind = "num"  -> ToString(v.val)

\* ", ".join(authors), for a list of str
RECURSIVE join_authors(_)
join_authors(l) ==
    IF l = <<>> THEN ""
    ELSE IF Len(l) = 1 THEN l[1].val
    ELSE l[1].val \o ", " \o join_authors(Tail(l))

\* ----------------------------------------------------------- get_book_data

Raised(exc) == [kind |-> "raised", exc |-> exc]

\* Faulty variant: the thumbnail is preferred over the larger images.
cover_of_thumbnail_first(image_links) ==
    py_or(get(image_links, "thumbnail"),
     py_or(get(image_links, "extraLarge"),
      py_or(get(image_links, "large"),
       py_or(get(image_links, "medium"),
        py_or(get(image_links, "small"),
         py_or(get(image_links, "smallThumbnail"), Null))))))

\* image_links.get('extraLarge') or ... or image_links.get('smallThumbnail') or None
cover_of(image_links) ==
    py_or(get(image_links, "extraLarge"),
     py_or(get(image_links, "large"),
      py_or(get(image_links, "medium"),
       py_or(get(image_links, "small"),
        py_or(get(image_links, "thumbnail"),
         py_or(get(image_links, "smallThumbnail"), Null))))))

\* authors = volume_info.get('authors', ['Unknown Author'])
\* if not isinstance(authors, list): authors = [str(authors)]
authors_of(volume_info) ==
    LET authors == get_default(volume_info, "authors", List(<<Str("Unknown Author")>>))
    IN  IF authors.kind = "list" THEN authors ELSE List(<<Str(py_str(authors))>>)

\* Faulty variant: free only by saleability.
is_free_of_sale_only(saleability, access_info) == saleability = Str("FREE")

\* saleability == 'FREE' or access_info.get('viewability') == 'ALL_PAGES'
is_free_of(saleability, access_info) ==
    saleability = Str("FREE") \/ get(access_info, "viewability") = Str("ALL_PAGES")

\* Faulty variant: webReaderLink is preferred over previewLink.
preview_link_of_reader_first(vol_id, is_free, volume_info, access_info) ==
    IF truthy(vol_id)
       /\ (is_free \/ (truthy(get(access_info, "viewability"))
                       /\ get(access_info, "viewability") # Str("NO_PAGES")))
    THEN Str("https://play.google.com/books/reader?id=" \o py_str(vol_id))
    ELSE py_or(get(access_info, "webReaderLink"),
          py_or(get(volume_info, "previewLink"),
                get(volume_info, "canonicalVolumeLink")))

\* The preview link: the reader URL, or the first truthy of the three links.
preview_link_of(vol_id, is_free, volume_info, access_info) ==
    IF truthy(vol_id)
       /\ (is_free \/ (truthy(get(access_info, "viewability"))
                       /\ get(access_info, "viewability") # Str("NO_PAGES")))
    THEN Str("https://play.google.com/books/reader?id=" \o py_str(vol_id))
    ELSE py_or(get(volume_info, "previewLink"),
          py_or(get(access_info, "webReaderLink"),
                get(volume_info, "canonicalVolumeLink")))

\* get_book_data(it): the dict returned, or the exception raised on the way.
get_book_data(it) ==
    IF ~has_get(it) THEN Raised("AttributeError")
    ELSE
    LET volume_info == get_default(it, "volumeInfo", EmptyDict)
        sale_info   == get_default(it, "saleInfo", EmptyDict)
        access_info == get_default(it, "accessInfo", EmptyDict)
    IN  IF ~has_get(volume_info) THEN Raised("AttributeError")
        ELSE
        LET image_links == get_default(volume_info, "imageLinks", EmptyDict)
        IN  IF ~has_get(image_links) THEN Raised("AttributeError")
            ELSE IF ~has_get(sale_info) THEN Raised("AttributeError")
            ELSE IF ~has_get(access_info) THEN Raised("AttributeError")
            ELSE
            LET cover_url   == cover_of(image_links)
                authors     == authors_of(volume_info)
                categories  == py_or(get(volume_info, "categories"), List(<<>>))
                saleability == get_default(sale_info, "saleability", Str("NOT_FOR_SALE"))
                is_free     == is_free_of(saleability, access_info)
                vol_id      == get(it, "id")
                preview_link == preview_link_of(vol_id, is_free, volume_info, access_info)
            IN  IF \E i \in 1..Len(authors.val) : authors.val[i].kind # "str"
                THEN Raised("TypeError")
                ELSE [kind |-> "book", val |-> [
                    id           |-> get(it, "id"),
                    title        |-> get_default(volume_info, "title", Str("Untitled")),
                    author       |-> Str(join_authors(authors.val)),
                    cover        |-> cover_url,
                    description  |-> get_default(volume_info, "description",
                                                 Str("No description available.")),
                    buy_link     |-> get_default(sale_info, "buyLink", Str("#")),
                    info_link    |-> py_or(get(volume_info, "infoLink"), get(it, "selfLink")),
                    preview_link |-> preview_link,
                    pdf_link     |-> Str("/pdfs/" \o py_str(get(it, "id")) \o ".pdf"),
                    publishedDate |-> get(volume_info, "publishedDate"),
                    categories   |-> categories,
                    pageCount    |-> get(volume_info, "pageCount"),
                    language     |-> get(volume_info, "language"),
                    publisher    |-> get(volume_info, "publisher"),
                    saleability  |-> saleability,
                    is_free      |-> is_free,
                    viewability  |-> get_default(access_info, "viewability", Str("NO_PAGES")),
                    rating       |-> get(volume_info, "averageRating"),
                    ratingsCount |-> get(volume_info, "ratingsCount")]]

\* ----------------------------------------------------------- catalog items

\* Most image links a drawn imageLinks dict holds.
MaxImages == 2
\* Longest authors list drawn.
MaxAuthors == 2

ImageKeys == <<"extraLarge", "large", "medium", "small", "thumbnail", "smallThumbnail">>

image_url(key) == "http://books.google.com/books/content?img=" \o key

Ids == {Absent, Null, Str(""), Str("zyTCAlFPjgYC")}

SaleInfos ==
    {Absent, Null, EmptyDict}
    \cup {MakeDict(<< <<"saleability", Str(v)>>, <<"buyLink", b>> >>) :
            v \in {"FREE", "FOR_SALE", "NOT_FOR_SALE"},
            b \in {Absent, Str("https://play.google.com/store/books/details?id=1")}}

Viewabilities == {Absent, Null, Str(""), Str("NO_PAGES"), Str("PARTIAL"), Str("ALL_PAGES")}

AccessInfos ==
    {Absent, Null}
    \cup {MakeDict(<< <<"viewability", v>>, <<"webReaderLink", w>> >>) :
            v \in Viewabilities,
            w \in {Absent, Str(""), Str("http://play.google.com/books/reader?id=w")}}

\* volumeInfo of the items that vary the sale and access side.
LinkVolumeInfos ==
    {Absent, Null}
    \cup {MakeDict(<< <<"title", Str("Dune")>>,
                      <<"previewLink", p>>,
                      <<"canonicalVolumeLink", c>> >>) :
            p \in {Absent, Str(""), Str("http://books.google.com/books?id=p")},
            c \in {Absent, Str("https://books.google.com/books/about/c")}}

\* imageLinks dicts with at most MaxImages keys, each a URL or an empty string.
ImageDicts ==
    {Dict(f) : f \in UNION {[K -> {"url", ""}] :
                              K \in {X \in SUBSET (1..6) : Cardinality(X) <= MaxImages}}}

image_links_of(d) ==
    Dict([k \in {ImageKeys[i] : i \in DOMAIN d.val} |->
            LET i == CHOOSE j \in DOMAIN d.val : ImageKeys[j] = k
            IN  IF d.val[i] = "url" THEN Str(image_url(k)) ELSE Str("")])

ImageLinksValues ==
    {Absent, Null, Str("http://books.google.com/cover.jpg")}
    \cup {image_links_of(d) : d \in ImageDicts}

RECURSIVE AuthorLists(_)
AuthorLists(n) ==
    IF n = 0 THEN {<<>>}
    ELSE LET P == AuthorLists(n - 1)
         IN  P \cup {Append(l, Str(a)) : l \in P, a \in {"Frank Herbert", "B"}}

AuthorsValues ==
    {Absent, Null, Str("Frank Herbert"), List(<<Num(7)>>), List(<<Str("A"), Null>>)}
    \cup {List(l) : l \in AuthorLists(MaxAuthors)}

\* volumeInfo of the items that vary the cover and the authors.
CoverVolumeInfos ==
    {MakeDict(<< <<"imageLinks", im>>, <<"authors", au>>, <<"title", t>> >>) :
        im \in ImageLinksValues, au \in AuthorsValues, t \in {Absent, Str("Dune")}}

Items ==
    {MakeDict(<< <<"id", id>>, <<"volumeInfo", vi>>, <<"saleInfo", si>>, <<"accessInfo", ai>> >>) :
        id \in Ids, vi \in LinkVolumeInfos, si \in SaleInfos, ai \in AccessInfos}
    \cup
    {MakeDict(<< <<"id", Str("zyTCAlFPjgYC")>>, <<"volumeInfo", vi>>,
                 <<"selfLink", Str("https://www.googleapis.com/books/v1/volumes/zyTCAlFPjgYC")>> >>) :
        vi \in CoverVolumeInfos}
    \cup {Null, Str("zyTCAlFPjgYC"), List(<<>>)}

\* -------------------------------------------------- normaliser-side actions

InitBook ==
    /\ item \in Items
    /\ bpc = "start"
    /\ book = NoItem
    /\ raw_query = ""
    /\ pc = "idle"
    /\ q_string = ""
    /\ params = <<>>
    /\ api_url = ""
    /\ IdleHttp
    /\ IdleListing
    /\ IdleDb

\* A call get_book_data(item).
GetBookData ==
    /\ bpc = "start"
    /\ book' = get_book_data(item)
    /\ bpc' = "done"
    /\ UNCHANGED item
    /\ UNCHANGED <<qvars, hvars, lvars, dvars>>

NextBook == GetBookData

SpecBook == InitBook /\ [][NextBook]_vars

\* ----------------------------------------------------------- fetch_api_data
\* What requests.get, raise_for_status and r.json() do on one call: they hand
\* back a decoded document, or one of them raises.

Returned(v) == [kind |-> "returned", val |-> v]

\* The exception classes of the except clauses, each with its base classes.
Bases ==
    [HTTPError        |-> {"HTTPError", "RequestException", "Exception"},
     ConnectionError  |-> {"ConnectionError", "RequestException", "Exception"},
     Timeout          |-> {"Timeout", "RequestException", "Exception"},
     TooManyRedirects |-> {"TooManyRedirects", "RequestException", "Exception"},
     ValueError       |-> {"ValueError", "Exception"}]

\* Faulty variant: only the exceptions of requests are handled.
except_clauses_requests_only ==
    <<"HTTPError", "ConnectionError", "Timeout", "RequestException">>

\* The except clauses of fetch_api_data, in order.
except_clauses ==
    <<"HTTPError", "ConnectionError", "Timeout", "RequestException", "Exception">>

\* fetch_api_data(api_url), given what the try block did: the document, None
\* from the first except clause that takes the exception, or the exception
\* itself when no clause takes it.
fetch_api_data(outcome) ==
    IF outcome.kind = "returned" THEN outcome.val
    ELSE IF \E i \in 1..Len(except_clauses) : except_clauses[i] \in Bases[outcome.exc]
         THEN Null
         ELSE outcome

\* ------------------------------------------------------- catalog responses

\* Most items a drawn catalog response lists.
MaxItems == 2

Cover(id, title) ==
    MakeDict(<< <<"id", Str(id)>>,
                <<"volumeInfo",
                  MakeDict(<< <<"title", Str(title)>>,
                              <<"imageLinks",
                                MakeDict(<< <<"thumbnail", Str(image_url(id))>> >>)>> >>)>> >>)

\* Two items with covers and the same id, one with a cover and another id,
\* one without a cover, and one whose volumeInfo is null.
ListingItems ==
    {Cover("a", "Dune"), Cover("a", "Dune Messiah"), Cover("b", "Foundation"),
     MakeDict(<< <<"id", Str("n")>>, <<"volumeInfo", MakeDict(<< <<"title", Str("Emma")>> >>)>> >>),
     MakeDict(<< <<"id", Str("m")>>, <<"volumeInfo", Null>> >>)}

RECURSIVE ItemLists(_)
ItemLists(n) ==
    IF n = 0 THEN {<<>>}
    ELSE LET P == ItemLists(n - 1)
         IN  P \cup {Append(l, it) : l \in P, it \in ListingItems}

\* The documents the catalog answers with: a dict with an items list, a dict
\* without one, an empty dict, null, and a bare list.
CatalogData ==
    {MakeDict(<< <<"totalItems", Num(Len(l))>>, <<"items", List(l)>> >>) : l \in ItemLists(MaxItems)}
    \cup {MakeDict(<< <<"totalItems", Num(0)>> >>), EmptyDict, Null,
          List(<<Cover("a", "Dune")>>)}

\* What a call of the catalog can come to.
FetchOutcomes ==
    {Returned(d) : d \in CatalogData}
    \cup {Raised(x) : x \in DOMAIN Bases}

\* ------------------------------------------------------ listing endpoints

\* jsonify(body) with status 200, and Flask's answer to an exception no
\* handler caught.
Ok(body) == [status |-> 200, body |-> body]
ServerError(exc) == [status |-> 500, body |-> exc]

\* Faulty variant: a record counts as having a cover whenever it has the key.
has_cover_key(b) == "cover" \in DOMAIN b.val

\* book.get('cover') as a condition
has_cover(b) == truthy(b.val.cover)

\* [b['id'] for b in books]
ids_of(bs) == {bs[i].val.id : i \in 1..Len(bs)}

\* The for loop of search_books: a record with a cover is appended, an item
\* get_book_data raises on is passed over.
RECURSIVE search_loop(_)
search_loop(items) ==
    IF items = <<>> THEN <<>>
    ELSE LET b == get_book_data(Head(items))
         IN  (IF b.kind = "book" /\ has_cover(b) THEN <<b>> ELSE <<>>)
             \o search_loop(Tail(items))

\* search_books from the return of fetch_api_data on. The items of a drawn
\* document are a list.
search_response(doc) ==
    IF doc.kind = "raised" THEN ServerError(doc.exc)
    ELSE IF ~truthy(doc) THEN Ok(<<>>)
    ELSE IF ~has_get(doc) THEN ServerError("AttributeError")
    ELSE LET items == get_default(doc, "items", List(<<>>))
         IN  IF ~truthy(items) THEN Ok(<<>>)
             ELSE Ok(search_loop(items.val))

\* [get_book_data(item) for item in items]: the list of the records, or the
\* first exception raised.
RECURSIVE book_list(_)
book_list(items) ==
    IF items = <<>> THEN List(<<>>)
    ELSE LET b == get_book_data(Head(items))
         IN  IF b.kind = "raised" THEN b
             ELSE LET rest == book_list(Tail(items))
                  IN  IF rest.kind = "raised" THEN rest ELSE List(<<b>> \o rest.val)

\* [b for b in bs if b.get('cover')]
with_cover(bs) == SelectSeq(bs, has_cover)

\* related_books from the return of fetch_api_data on.
related_response(doc) ==
    IF doc.kind = "raised" THEN ServerError(doc.exc)
    ELSE IF ~truthy(doc) THEN Ok(<<>>)
    ELSE IF ~has_get(doc) THEN ServerError("AttributeError")
    ELSE LET items == get_default(doc, "items", List(<<>>))
         IN  IF items.kind # "list" THEN ServerError("TypeError")
             ELSE LET bs == book_list(items.val)
                  IN  IF bs.kind = "raised" THEN ServerError(bs.exc)
                      ELSE Ok(with_cover(bs.val))

\* curated and query_map: the curated pairs of a section, and whether the
\* section has a fallback query. (The author of the fourth manga pair is
\* written here in ASCII.)
curated ==
    [manga |-> << <<"Vinland Saga", "Makoto Yukimura">>,
                  <<"Naruto", "Masashi Kishimoto">>,
                  <<"One Piece", "Eiichiro Oda">>,
                  <<"Boruto: Naruto Next Generations", "Ukyo Kodachi">>,
                  <<"Berserk", "Kentaro Miura">>,
                  <<"My Hero Academia", "Kohei Horikoshi">>,
                  <<"Demon Slayer", "Koyoharu Gotouge">> >>,
     fiction |-> << <<"To Kill a Mockingbird", "Harper Lee">>,
                    <<"The Great Gatsby", "F. Scott Fitzgerald">>,
                    <<"Pride and Prejudice", "Jane Austen">>,
                    <<"1984", "George Orwell">>,
                    <<"The Catcher in the Rye", "J.D. Salinger">> >>,
     scifi |-> << <<"Dune", "Frank Herbert">>,
                  <<"Foundation", "Isaac Asimov">>,
                  <<"Neuromancer", "William Gibson">>,
                  <<"Ender's Game", "Orson Scott Card">>,
                  <<"The Martian", "Andy Weir">> >>,
     philosophy |-> << <<"Meditations", "Marcus Aurelius">>,
                       <<"Letters from a Stoic", "Seneca">>,
                       <<"The Republic", "Plato">>,
                       <<"Nicomachean Ethics", "Aristotle">>,
                       <<"Thus Spoke Zarathustra", "Friedrich Nietzsche">>,
                       <<"Discourses and Selected Writings", "Epictetus">> >>,
     comics |-> << <<"The Avengers", "Stan Lee">>,
                   <<"The Amazing Spider-Man", "Stan Lee">>,
                   <<"Batman: The Dark Knight Returns", "Frank Miller">>,
                   <<"Watchmen", "Alan Moore">>,
                   <<"Saga", "Brian K. Vaughan">>,
                   <<"Paper Girls", "Brian K. Vaughan">> >>]

query_map ==
    [manga |-> "q=(subject:manga OR subject:\"graphic novels\" OR \"manga\")&orderBy=relevance&maxResults=40&printType=books",
     fiction |-> "q=subject:fiction&orderBy=relevance&maxResults=40&printType=books",
     scifi |-> "q=(subject:\"science fiction\" OR \"sci-fi\" OR \"scifi\")&orderBy=relevance&maxResults=40&printType=books",
     philosophy |-> "q=subject:philosophy&orderBy=relevance&maxResults=40&printType=books",
     fantasy |-> "q=subject:fantasy&orderBy=relevance&maxResults=40&printType=books",
     comics |-> "q=(subject:comics OR subject:\"graphic novels\")&orderBy=relevance&maxResults=40&printType=books"]

\* The inner for loop of step 1 of get_books_by_section: the first record
\* with a cover and an id not in bs yet, as a list of one (none: the empty
\* list), or the exception get_book_data raised before it was found.
RECURSIVE first_new(_, _)
first_new(items, bs) ==
    IF items = <<>> THEN List(<<>>)
    ELSE LET b == get_book_data(Head(items))
         IN  IF b.kind = "raised" THEN b
             ELSE IF has_cover(b) /\ b.val.id \notin ids_of(bs) THEN List(<<b>>)
             ELSE first_new(Tail(items), bs)

\* Faulty variant: every fallback record with a cover is taken.
fallback_books_all(raw_books, bs) == with_cover(raw_books)

\* [b for b in raw_books if b.get('cover') and b['id'] not in [bk['id'] for bk in books]]
fallback_books(raw_books, bs) ==
    LET keep(b) == has_cover(b) /\ b.val.id \notin ids_of(bs)
    IN  SelectSeq(raw_books, keep)

\* bs[:n]
slice_to(bs, n) ==
    IF n >= 0 THEN SubSeq(bs, 1, IF n < Len(bs) THEN n ELSE Len(bs))
    ELSE SubSeq(bs, 1, Len(bs) + n)

\* Largest limit a section request asks for in digits.
MaxLimit == 2

\* int(s) for the texts of the model: digits, with a minus sign or without.
int(s) ==
    IF Ch(s, 1) = "-"
    THEN 0 - (CHOOSE n \in 0..(MaxLimit + 1) : ToString(n) = SubSeq(s, 2, Len(s)))
    ELSE CHOOSE n \in 0..(MaxLimit + 1) : ToString(n) = s

\* try: limit = int(request.args.get('limit', 12)) except ValueError: limit = 12
limit_of(arg) ==
    IF arg = Absent THEN 12
    ELSE IF \/ (arg.val # "" /\ str_isdigit(arg.val))
            \/ (Len(arg.val) > 1 /\ Ch(arg.val, 1) = "-"
                /\ str_isdigit(SubSeq(arg.val, 2, Len(arg.val))))
         THEN int(arg.val)
         ELSE 12

\* What a handler keeps of a call of fetch_api_data in its log.
shape_of(doc) ==
    IF doc.kind = "raised" THEN "raised"
    ELSE IF doc = Null THEN "none"
    ELSE IF ~truthy(doc) THEN "empty"
    ELSE IF has_get(doc) THEN "dict"
    ELSE "other"

fetch_call(doc) == [fn |-> "fetch_api_data", returned |-> shape_of(doc)]

\* ------------------------------------------------------- listing requests

ListingQueries == {"", " ", "Dune", "x by y"}
RelatedArgs == {"", " ", "Dune Messiah", "Frank Herbert"}
Sections == {"scifi", "manga", "fantasy", "poetry"}
LimitArgs == {Absent, Str("many"), Str("-1")} \cup {Str(ToString(n)) : n \in 0..MaxLimit}

\* ---------------------------------------------------- listing-side actions

\* A request is between two of its steps.
InFlight == pc = "fetching" \/ lpc # "idle"

\* No request has been served yet. The listing handlers keep nothing from one
\* request to the next, so a run serves one.
Fresh == route = "none"

\* search_books from the call of fetch_api_data to the response.
SearchBooksFetch ==
    /\ pc = "fetching"
    /\ \E outcome \in FetchOutcomes :
        LET doc == fetch_api_data(outcome)
        IN  /\ data' = doc
            /\ calls' = <<fetch_call(doc)>>
            /\ response' = search_response(doc)
    /\ pc' = "done"
    /\ UNCHANGED <<raw_query, q_string, params, api_url>>
    /\ UNCHANGED <<bvars, lvars, dvars>>

\* GET /api/books/related?title=t&author=a
RelatedBooks ==
    /\ Fresh
    /\ \E t \in RelatedArgs, a \in RelatedArgs :
        /\ route' = "related_books"
        /\ args' = [title |-> t, author |-> a]
        /\ IF strip(t) = "" /\ strip(a) = ""
           THEN /\ response' = Ok(<<>>)
                /\ calls' = <<>>
                /\ data' = NoData
           ELSE \E outcome \in FetchOutcomes :
                    LET doc == fetch_api_data(outcome)
                    IN  /\ data' = doc
                        /\ calls' = <<fetch_call(doc)>>
                        /\ response' = related_response(doc)
    /\ UNCHANGED <<lpc, books, idx>>
    /\ UNCHANGED <<qvars, bvars, dvars>>

\* GET /api/books/section/<section_name>?limit=..., up to books = [].
GetBooksBySection ==
    /\ Fresh
    /\ \E section_name \in Sections, arg \in LimitArgs :
        /\ route' = "get_books_by_section"
        /\ args' = [section_name |-> section_name, limit |-> limit_of(arg)]
    /\ books' = <<>>
    /\ idx' = 1
    /\ lpc' = "curated"
    /\ calls' = <<>>
    /\ response' = NoResponse
    /\ data' = NoData
    /\ UNCHANGED <<qvars, bvars, dvars>>

\* Step 1 has pairs left to try and room for their books.
CuratedLeft ==
    /\ args.section_name \in DOMAIN curated
    /\ idx <= Len(curated[args.section_name])
    /\ Len(books) < args.limit

\* One turn of the for loop of step 1.
GetBooksBySectionCurated ==
    /\ lpc = "curated"
    /\ CuratedLeft
    /\ \E outcome \in FetchOutcomes :
        LET doc == fetch_api_data(outcome)
        IN  /\ calls' = <<fetch_call(doc)>>
            /\ IF doc.kind = "raised" \/ (truthy(doc) /\ ~has_get(doc))
               THEN /\ response' = ServerError(IF doc.kind = "raised" THEN doc.exc
                                               ELSE "AttributeError")
                    /\ lpc' = "idle"
                    /\ UNCHANGED <<books, idx>>
               ELSE IF truthy(doc) /\ truthy(get(doc, "items"))
               THEN LET new == first_new(get(doc, "items").val, books)
                    IN  IF new.kind = "raised"
                        THEN /\ response' = ServerError(new.exc)
                             /\ lpc' = "idle"
                             /\ UNCHANGED <<books, idx>>
                        ELSE /\ books' = books \o new.val
                             /\ idx' = idx + 1
                             /\ UNCHANGED <<response, lpc>>
               ELSE /\ idx' = idx + 1
                    /\ UNCHANGED <<books, response, lpc>>
    /\ UNCHANGED <<route, args, data>>
    /\ UNCHANGED <<qvars, bvars, dvars>>

\* Step 2 of get_books_by_section and its return.
GetBooksBySectionFallback ==
    /\ lpc = "curated"
    /\ ~CuratedLeft
    /\ IF Len(books) < args.limit /\ args.section_name \in DOMAIN query_map
       THEN \E outcome \in FetchOutcomes :
            LET doc == fetch_api_data(outcome)
            IN  /\ calls' = <<fetch_call(doc)>>
                /\ IF doc.kind = "raised" \/ (truthy(doc) /\ ~has_get(doc))
                   THEN /\ response' = ServerError(IF doc.kind = "raised" THEN doc.exc
                                                   ELSE "AttributeError")
                        /\ UNCHANGED books
                   ELSE IF truthy(doc) /\ truthy(get(doc, "items"))
                   THEN LET raw_books == book_list(get(doc, "items").val)
                        IN  IF raw_books.kind = "raised"
                            THEN /\ response' = ServerError(raw_books.exc)
                                 /\ UNCHANGED books
                            ELSE /\ books' = books \o fallback_books(raw_books.val, books)
                                 /\ response' = Ok(slice_to(books', args.limit))
                   ELSE /\ response' = Ok(slice_to(books, args.limit))
                        /\ UNCHANGED books
       ELSE /\ response' = Ok(slice_to(books, args.limit))
            /\ calls' = <<>>
            /\ UNCHANGED books
    /\ lpc' = "idle"
    /\ UNCHANGED <<route, args, idx, data>>
    /\ UNCHANGED <<qvars, bvars, dvars>>

\* ------------------------------------------------------------------ tables
\* users is a set of rows [id, name, email, avatar] and shelves a set of rows
\* [id, user_id, name, is_default]; shelf_books is the sequence of its rows
\* [shelf_id, book_id] in the order of added_at. A statement takes effect when
\* it is executed.

\* hashlib.md5(s.encode('utf-8')).hexdigest(), kept symbolic: different texts
\* have different digests.
md5(s) == "md5(" \o s \o ")"

\* email.split('@')[0]
RECURSIVE before_at(_)
before_at(s) ==
    IF s = "" \/ Head(s) = "@" THEN "" ELSE Head(s) \o before_at(Tail(s))

avatar_hash_of(email) == md5(lower(email))
avatar_url_of(email) ==
    "https://www.gravatar.com/avatar/" \o avatar_hash_of(email) \o "?d=identicon&s=150"

\* The row login inserts for an email.
new_user(email) ==
    [id |-> avatar_hash_of(email), name |-> before_at(email),
     email |-> email, avatar |-> avatar_url_of(email)]

\* load_user(current_user): the session counts as logged in while its user
\* has a row.
is_authenticated == \E u \in users : u.id = current_user

\* @login_required turning an anonymous request away.
Unauthorized == [status |-> 302, body |-> "login"]

Json(status, body) == [status |-> status, body |-> body]

\* defaults of create_default_shelves
defaults == <<"To Read", "Currently Reading", "Read">>

\* The for loop of create_default_shelves from the i-th default on: the
\* tables <<shelves, shelf_seq>> after INSERT ... ON CONFLICT (user_id, name)
\* DO NOTHING of each name.
RECURSIVE create_default_shelves(_, _, _, _)
create_default_shelves(user_id, i, sh, seq) ==
    IF i > Len(defaults) THEN <<sh, seq>>
    ELSE IF \E s \in sh : s.user_id = user_id /\ s.name = defaults[i]
         THEN create_default_shelves(user_id, i + 1, sh, seq)
         ELSE create_default_shelves(user_id, i + 1,
                  sh \cup {[id |-> seq + 1, user_id |-> user_id,
                            name |-> defaults[i], is_default |-> TRUE]},
                  seq + 1)

\* Faulty variant: the shelf is looked up by its id alone.
own_shelf_any_user(shelf_id) == {s \in shelves : s.id = shelf_id}

\* SELECT ... FROM shelves WHERE id = :id AND user_id = :uid
own_shelf(shelf_id) ==
    {s \in shelves : s.id = shelf_id /\ s.user_id = current_user}

\* SELECT book_id FROM shelf_books WHERE shelf_id = :sid
\* ORDER BY added_at DESC LIMIT :lim
RECURSIVE newest_first(_, _, _)
newest_first(rows, shelf_id, lim) ==
    IF rows = <<>> \/ lim = 0 THEN <<>>
    ELSE LET last == rows[Len(rows)]
             rest == SubSeq(rows, 1, Len(rows) - 1)
         IN  IF last.shelf_id = shelf_id
             THEN <<last.book_id>> \o newest_first(rest, shelf_id, lim - 1)
             ELSE newest_first(rest, shelf_id, lim)

\* What fetching one volume by its id can come to.
VolumeOutcomes ==
    {Returned(d) : d \in ListingItems \cup {Null, EmptyDict}}
    \cup {Raised(x) : x \in {"Timeout", "ValueError"}}

\* fetch_book_by_id(volume_id), given what the fetch came to: the record, or
\* Null for None.
fetch_book_by_id(outcome) ==
    LET doc == fetch_api_data(outcome)
    IN  IF doc.kind = "raised" THEN Null
        ELSE IF ~truthy(doc) THEN Null
        ELSE LET b == get_book_data(doc)
             IN  IF b.kind = "raised" THEN Null ELSE b

\* The for loop of api_shelf_books over ids, outs[i] being what the fetch of
\* ids[i] came to.
RECURSIVE shelf_loop(_, _, _)
shelf_loop(ids, outs, i) ==
    IF i > Len(ids) THEN <<>>
    ELSE LET b == fetch_book_by_id(outs[i])
         IN  (IF b # Null /\ has_cover(b) THEN <<b>> ELSE <<>>)
             \o shelf_loop(ids, outs, i + 1)

\* Most rows of shelf_books.
MaxShelfBooks == 2

\* The volume ids put on shelves, and the shelf ids and limits requests name.
BookIds == {"a", "n"}
ShelfIds == {1, shelf_seq, shelf_seq + 1}
ShelfLimits == {Absent, Str("1")}

\* GET /api/shelves/<shelf_id>/books?limit=...
ApiShelfBooksGet ==
    /\ ~InFlight
    /\ \E shelf_id \in ShelfIds, arg \in ShelfLimits :
        /\ route' = "api_shelf_books"
        /\ args' = [method |-> "GET", shelf_id |-> shelf_id, limit |-> arg]
        /\ IF ~is_authenticated
           THEN /\ response' = Unauthorized
                /\ calls' = <<>>
           ELSE IF own_shelf(shelf_id) = {}
           THEN /\ response' = Json(404, [error |-> "not found"])
                /\ calls' = <<>>
           ELSE LET limit == IF arg = Absent THEN 40 ELSE int(arg.val)
                    ids == newest_first(shelf_books, shelf_id, limit)
                IN  \E outs \in [1..Len(ids) -> VolumeOutcomes] :
                        /\ response' = Ok(shelf_loop(ids, outs, 1))
                        /\ calls' = [i \in 1..Len(ids) |->
                                        fetch_call(fetch_api_data(outs[i]))]
    /\ data' = NoData
    /\ UNCHANGED <<lpc, books, idx>>
    /\ UNCHANGED <<qvars, bvars, dvars>>

RECURSIVE ShelfRows(_)
ShelfRows(n) ==
    IF n = 0 THEN {<<>>}
    ELSE LET P == ShelfRows(n - 1)
         IN  P \cup UNION {{Append(rows, [shelf_id |-> 1, book_id |-> b]) :
                                b \in {x \in BookIds :
                                    \A i \in 1..Len(rows) : rows[i].book_id # x}} :
                            rows \in P}

\* The listing endpoints serve a reader who has logged in once and has put up
\* to MaxShelfBooks books on the first default shelf.
InitListing ==
    /\ raw_query \in ListingQueries
    /\ shelf_books \in ShelfRows(MaxShelfBooks)
    /\ raw_query = "Dune" \/ shelf_books = <<>>
    /\ pc = "start"
    /\ q_string = ""
    /\ params = <<>>
    /\ api_url = ""
    /\ item = NoItem
    /\ bpc = "idle"
    /\ book = NoItem
    /\ IdleHttp
    /\ IdleListing
    /\ users = {new_user("reader@example.com")}
    /\ current_user = avatar_hash_of("reader@example.com")
    /\ shelves = create_default_shelves(current_user, 1, {}, 0)[1]
    /\ shelf_seq = Len(defaults)

NextListing ==
    \/ SearchBooks
    \/ SearchBooksFetch
    \/ RelatedBooks
    \/ GetBooksBySection
    \/ GetBooksBySectionCurated
    \/ GetBooksBySectionFallback
    \/ (Fresh /\ ApiShelfBooksGet)

SpecListing == InitListing /\ [][NextListing]_vars

\* ------------------------------------------------- accounts and shelves
\* One browser session sends requests one after the other; current_user is the
\* id its login cookie holds ("" for none). The statements are executed as
\* they are written: the tables have the keys the ON CONFLICT clauses name
\* (users.id, shelves (user_id, name), shelf_books (shelf_id, book_id)) and
\* shelves.id comes from a counter; shelf_seq counts the ids given to rows,
\* not the ones the database skips after a conflict.

\* Most shelves ever created, and most books the requests put on shelves.
MaxShelfSeq == 7
MaxShelfRows == 1

\* What the requests carry.
Emails == {"", "a@x.com", "A@x.com", " b@x.com"}
NewNames == {"", "Wishlist"}
Renames == {"", " Later ", "Read"}
BookArgs == {"", " a "}
Methods == {"PATCH", "DELETE"}

\* requests.get(gravatar_probe, timeout=5): the status of the answer, or the
\* RequestException raised.
ProbeOutcomes == {Returned(200), Returned(404), Raised("Timeout")}

\* A row that was in users before the ids were derived from the email.
legacy_user ==
    [id |-> "7", name |-> "Bee", email |-> "b@x.com", avatar |-> "bee.png"]

Redirect(endpoint) == [status |-> 302, body |-> endpoint]
Rendered(template) == [status |-> 200, body |-> template]

\* The response of a handler that calls nothing but the database and the
\* Gravatar probe, with the request it answers.
Answer(rt, ar, resp, cs) ==
    /\ route' = rt
    /\ args' = ar
    /\ response' = resp
    /\ calls' = cs
    /\ data' = NoData
    /\ UNCHANGED <<lpc, books, idx>>
    /\ UNCHANGED <<qvars, bvars>>

\* has_gravatar of login
has_gravatar(probe) == probe.kind = "returned" /\ probe.val = 200

\* SELECT id, name, email, avatar FROM users WHERE email = :email
by_email(tbl, email) == {u \in tbl : u.email = email}

\* The users table after the transaction of login for email.
login_users(email) ==
    IF by_email(users, email) = {}
    THEN IF \E u \in users : u.id = avatar_hash_of(email)
         THEN users
         ELSE users \cup {new_user(email)}
    ELSE LET user_data == CHOOSE u \in by_email(users, email) : TRUE
         IN  IF user_data.avatar # avatar_url_of(email)
                \/ user_data.name # before_at(email)
             THEN {IF u.id = user_data.id
                   THEN [u EXCEPT !.name = before_at(email),
                                  !.avatar = avatar_url_of(email)]
                   ELSE u : u \in users}
             ELSE users

\* POST /login
Login ==
    /\ ~InFlight
    /\ \E form \in Emails, probe \in ProbeOutcomes :
        \E email \in {strip(form)} :
            IF email = ""
            THEN /\ Answer("login", [method |-> "POST", email |-> form],
                           Rendered("login_email.html"), <<>>)
                 /\ UNCHANGED dvars
            ELSE IF ~has_gravatar(probe)
            THEN /\ Answer("login", [method |-> "POST", email |-> form],
                           Redirect("create_gravatar_page"),
                           <<[fn |-> "requests.get", outcome |-> probe]>>)
                 /\ UNCHANGED dvars
            ELSE \E tbl \in {login_users(email)} :
                    /\ users' = tbl
                    /\ IF by_email(tbl, email) = {}
                       THEN /\ Answer("login", [method |-> "POST", email |-> form],
                                      Rendered("login_email.html"),
                                      <<[fn |-> "requests.get", outcome |-> probe]>>)
                            /\ UNCHANGED <<shelves, shelf_books, shelf_seq,
                                           current_user>>
                       ELSE \E user \in by_email(tbl, email) :
                            \E r \in {create_default_shelves(user.id, 1, shelves,
                                                             shelf_seq)} :
                                /\ r[2] <= MaxShelfSeq
                                /\ current_user' = user.id
                                /\ shelves' = r[1]
                                /\ shelf_seq' = r[2]
                                /\ UNCHANGED shelf_books
                                /\ Answer("login",
                                          [method |-> "POST", email |-> form],
                                          Redirect("home"),
                                          <<[fn |-> "requests.get",
                                             outcome |-> probe]>>)

\* GET /logout
Logout ==
    /\ ~InFlight
    /\ IF ~is_authenticated
       THEN /\ Answer("logout", NoArgs, Unauthorized, <<>>)
            /\ UNCHANGED dvars
       ELSE /\ current_user' = ""
            /\ Answer("logout", NoArgs, Redirect("index"), <<>>)
            /\ UNCHANGED <<users, shelves, shelf_books, shelf_seq>>

ProfileIds == {u.id : u \in users} \cup {"0"}

\* DELETE /delete_profile/<profile_id>
DeleteProfile ==
    /\ ~InFlight
    /\ \E profile_id \in ProfileIds :
        IF ~is_authenticated
        THEN /\ Answer("delete_profile", [profile_id |-> profile_id],
                       Unauthorized, <<>>)
             /\ UNCHANGED dvars
        ELSE LET self_deleted == profile_id = current_user
             IN  /\ users' = {u \in users : u.id # profile_id}
                 /\ current_user' = IF self_deleted THEN "" ELSE current_user
                 /\ Answer("delete_profile", [profile_id |-> profile_id],
                           Json(200, [success |-> TRUE,
                                      self_deleted |-> self_deleted]), <<>>)
                 /\ UNCHANGED <<shelves, shelf_books, shelf_seq>>

\* POST /api/shelves/defaults
ApiEnsureDefaults ==
    /\ ~InFlight
    /\ IF ~is_authenticated
       THEN /\ Answer("api_ensure_defaults", NoArgs, Unauthorized, <<>>)
            /\ UNCHANGED dvars
       ELSE \E r \in {create_default_shelves(current_user, 1, shelves, shelf_seq)} :
                /\ r[2] <= MaxShelfSeq
                /\ shelves' = r[1]
                /\ shelf_seq' = r[2]
                /\ Answer("api_ensure_defaults", NoArgs,
                          Json(200, [ok |-> TRUE]), <<>>)
                /\ UNCHANGED <<users, shelf_books, current_user>>

\* A shelf of user_id has this name already.
name_taken(user_id, name, but) ==
    \E s \in shelves : s.user_id = user_id /\ s.name = name /\ s.id # but

\* POST /api/shelves
ApiShelvesPost ==
    /\ ~InFlight
    /\ \E arg \in NewNames :
        \E name \in {strip(arg)} :
            IF ~is_authenticated
            THEN /\ Answer("api_shelves", [method |-> "POST", name |-> arg],
                           Unauthorized, <<>>)
                 /\ UNCHANGED dvars
            ELSE IF name = ""
            THEN /\ Answer("api_shelves", [method |-> "POST", name |-> arg],
                           Json(400, [error |-> "name required"]), <<>>)
                 /\ UNCHANGED dvars
            ELSE IF name_taken(current_user, name, 0)
            THEN /\ Answer("api_shelves", [method |-> "POST", name |-> arg],
                           Json(400, [error |-> "IntegrityError"]), <<>>)
                 /\ UNCHANGED dvars
            ELSE /\ shelf_seq < MaxShelfSeq
                 /\ shelf_seq' = shelf_seq + 1
                 /\ shelves' = shelves \cup
                        {[id |-> shelf_seq + 1, user_id |-> current_user,
                          name |-> name, is_default |-> FALSE]}
                 /\ Answer("api_shelves", [method |-> "POST", name |-> arg],
                           Json(201, [id |-> shelf_seq + 1, name |-> name,
                                      is_default |-> FALSE]), <<>>)
                 /\ UNCHANGED <<users, shelf_books, current_user>>

\* Faulty variant: no shelf counts as a default one.
is_default_never(shelf) == FALSE

\* shelf['is_default'] of api_shelf_modify
is_default(shelf) == shelf.is_default

\* PATCH and DELETE /api/shelves/<shelf_id>
ApiShelfModify ==
    /\ ~InFlight
    /\ \E shelf_id \in ShelfIds, method \in Methods, arg \in Renames :
        \E ar \in {IF method = "PATCH"
                   THEN [method |-> method, shelf_id |-> shelf_id, name |-> arg]
                   ELSE [method |-> method, shelf_id |-> shelf_id]} :
            IF ~is_authenticated
            THEN /\ Answer("api_shelf_modify", ar, Unauthorized, <<>>)
                 /\ UNCHANGED dvars
            ELSE IF own_shelf(shelf_id) = {}
            THEN /\ Answer("api_shelf_modify", ar,
                           Json(404, [error |-> "not found"]), <<>>)
                 /\ UNCHANGED dvars
            ELSE \E shelf \in own_shelf(shelf_id), name \in {strip(arg)} :
                IF method = "PATCH"
                THEN IF is_default(shelf)
                     THEN /\ Answer("api_shelf_modify", ar,
                                    Json(400, [error |-> "cannot rename default shelf"]),
                                    <<>>)
                          /\ UNCHANGED dvars
                     ELSE IF name = ""
                     THEN /\ Answer("api_shelf_modify", ar,
                                    Json(400, [error |-> "name required"]), <<>>)
                          /\ UNCHANGED dvars
                     ELSE IF name_taken(shelf.user_id, name, shelf_id)
                     THEN /\ Answer("api_shelf_modify", ar,
                                    ServerError("IntegrityError"), <<>>)
                          /\ UNCHANGED dvars
                     ELSE /\ shelves' = {IF s.id = shelf_id
                                         THEN [s EXCEPT !.name = name]
                                         ELSE s : s \in shelves}
                          /\ Answer("api_shelf_modify", ar,
                                    Json(200, [ok |-> TRUE]), <<>>)
                          /\ UNCHANGED <<users, shelf_books, shelf_seq,
                                         current_user>>
                ELSE IF is_default(shelf)
                     THEN /\ Answer("api_shelf_modify", ar,
                                    Json(400, [error |-> "cannot delete default shelf"]),
                                    <<>>)
                          /\ UNCHANGED dvars
                     ELSE /\ shelves' = {s \in shelves : s.id # shelf_id}
                          /\ Answer("api_shelf_modify", ar,
                                    Json(200, [ok |-> TRUE]), <<>>)
                          /\ UNCHANGED <<users, shelf_books, shelf_seq,
                                         current_user>>

\* shelf_books holds the row (shelf_id, book_id).
on_shelf(shelf_id, book_id) ==
    \E i \in 1..Len(shelf_books) :
        shelf_books[i] = [shelf_id |-> shelf_id, book_id |-> book_id]

\* POST /api/shelves/<shelf_id>/books
ApiShelfBooksPost ==
    /\ ~InFlight
    /\ \E shelf_id \in ShelfIds, arg \in BookArgs :
        \E ar \in {[method |-> "POST", shelf_id |-> shelf_id, book_id |-> arg]},
           book_id \in {strip(arg)} :
            IF ~is_authenticated
            THEN /\ Answer("api_shelf_books", ar, Unauthorized, <<>>)
                 /\ UNCHANGED dvars
            ELSE IF own_shelf(shelf_id) = {}
            THEN /\ Answer("api_shelf_books", ar,
                           Json(404, [error |-> "not found"]), <<>>)
                 /\ UNCHANGED dvars
            ELSE IF book_id = ""
            THEN /\ Answer("api_shelf_books", ar,
                           Json(400, [error |-> "book_id required"]), <<>>)
                 /\ UNCHANGED dvars
            ELSE IF on_shelf(shelf_id, book_id)
            THEN /\ Answer("api_shelf_books", ar,
                           Json(200, [ok |-> TRUE, added |-> FALSE]), <<>>)
                 /\ UNCHANGED dvars
            ELSE /\ Len(shelf_books) < MaxShelfRows
                 /\ shelf_books' = Append(shelf_books,
                        [shelf_id |-> shelf_id, book_id |-> book_id])
                 /\ Answer("api_shelf_books", ar,
                           Json(200, [ok |-> TRUE, added |-> TRUE]), <<>>)
                 /\ UNCHANGED <<users, shelves, shelf_seq, current_user>>

\* DELETE FROM shelf_books WHERE shelf_id = :sid AND book_id = :bid
RECURSIVE without_row(_, _, _)
without_row(rows, shelf_id, book_id) ==
    IF rows = <<>> THEN <<>>
    ELSE (IF Head(rows) = [shelf_id |-> shelf_id, book_id |-> book_id]
          THEN <<>> ELSE <<Head(rows)>>)
         \o without_row(Tail(rows), shelf_id, book_id)

\* DELETE /api/shelves/<shelf_id>/books/<book_id>
ApiShelfBookDelete ==
    /\ ~InFlight
    /\ \E shelf_id \in ShelfIds, book_id \in BookIds :
        \E ar \in {[shelf_id |-> shelf_id, book_id |-> book_id]} :
            IF ~is_authenticated
            THEN /\ Answer("api_shelf_book_delete", ar, Unauthorized, <<>>)
                 /\ UNCHANGED dvars
            ELSE IF own_shelf(shelf_id) = {}
            THEN /\ Answer("api_shelf_book_delete", ar,
                           Json(404, [error |-> "not found"]), <<>>)
                 /\ UNCHANGED dvars
            ELSE /\ shelf_books' = without_row(shelf_books, shelf_id, book_id)
                 /\ Answer("api_shelf_book_delete", ar,
                           Json(200, [ok |-> TRUE]), <<>>)
                 /\ UNCHANGED <<users, shelves, shelf_seq, current_user>>

\* get_shelf_by_name(user_id, name) on the table sh
get_shelf_by_name(sh, user_id, name) ==
    {s \in sh : s.user_id = user_id /\ s.name = name}

\* POST /api/mylist/add
ApiMylistAdd ==
    /\ ~InFlight
    /\ \E arg \in BookArgs :
        \E ar \in {[book_id |-> arg]}, book_id \in {strip(arg)} :
            IF ~is_authenticated
            THEN /\ Answer("api_mylist_add", ar, Unauthorized, <<>>)
                 /\ UNCHANGED dvars
            ELSE IF book_id = ""
            THEN /\ Answer("api_mylist_add", ar,
                           Json(400, [error |-> "book_id required"]), <<>>)
                 /\ UNCHANGED dvars
            ELSE \E r \in {create_default_shelves(current_user, 1, shelves,
                                                  shelf_seq)} :
                /\ r[2] <= MaxShelfSeq
                /\ shelves' = r[1]
                /\ shelf_seq' = r[2]
                /\ UNCHANGED <<users, current_user>>
                /\ IF get_shelf_by_name(r[1], current_user, "To Read") = {}
                   THEN /\ UNCHANGED shelf_books
                        /\ Answer("api_mylist_add", ar,
                                  Json(500, [error |-> "default shelf missing"]),
                                  <<>>)
                   ELSE
                   \E shelf \in get_shelf_by_name(r[1], current_user, "To Read") :
                    IF on_shelf(shelf.id, book_id)
                    THEN /\ UNCHANGED shelf_books
                         /\ Answer("api_mylist_add", ar,
                                   Json(200, [ok |-> TRUE, shelf_id |-> shelf.id,
                                              added |-> FALSE]), <<>>)
                    ELSE /\ Len(shelf_books) < MaxShelfRows
                         /\ shelf_books' = Append(shelf_books,
                                [shelf_id |-> shelf.id, book_id |-> book_id])
                         /\ Answer("api_mylist_add", ar,
                                   Json(200, [ok |-> TRUE, shelf_id |-> shelf.id,
                                              added |-> TRUE]), <<>>)

\* The server starts with no shelves, and with an empty users table or one
\* that holds a row from before.
InitAccounts ==
    /\ raw_query = ""
    /\ pc = "start"
    /\ q_string = ""
    /\ params = <<>>
    /\ api_url = ""
    /\ item = NoItem
    /\ bpc = "idle"
    /\ book = NoItem
    /\ IdleHttp
    /\ IdleListing
    /\ users \in {{}, {legacy_user}}
    /\ shelves = {}
    /\ shelf_books = <<>>
    /\ shelf_seq = 0
    /\ current_user = ""

NextAccounts ==
    \/ Login
    \/ Logout
    \/ DeleteProfile

SpecAccounts == InitAccounts /\ [][NextAccounts]_vars

\* Two readers have logged in once each and have logged out again.
Readers == <<"a@x.com", "b@x.com">>

InitShelves ==
    /\ raw_query = ""
    /\ pc = "start"
    /\ q_string = ""
    /\ params = <<>>
    /\ api_url = ""
    /\ item = NoItem
    /\ bpc = "idle"
    /\ book = NoItem
    /\ IdleHttp
    /\ IdleListing
    /\ users = {new_user(Readers[i]) : i \in 1..Len(Readers)}
    /\ shelves = create_default_shelves(avatar_hash_of(Readers[2]), 1,
                     create_default_shelves(avatar_hash_of(Readers[1]), 1,
                                            {}, 0)[1],
                     Len(defaults))[1]
    /\ shelf_books = <<>>
    /\ shelf_seq = 2 * Len(defaults)
    /\ current_user = ""

NextShelves ==
    \/ Login
    \/ Logout
    \/ ApiEnsureDefaults
    \/ ApiShelvesPost
    \/ ApiShelfModify
    \/ ApiShelfBooksGet
    \/ ApiShelfBooksPost
    \/ ApiShelfBookDelete
    \/ ApiMylistAdd

SpecShelves == InitShelves /\ [][NextShelves]_vars

\* ======================================================================
\* Properties of the query builder (checked under SpecQuery)
\* ======================================================================

\* The q of build_books_query: the input without its surrounding white space.
Trimmed == strip(raw_query)

\* A direct call of build_books_query has returned.
Built == pc = "built"

\* The condition of rule k of build_books_query on q, and what rule k returns.
RuleMatches(k, q) ==
    CASE k = 1 -> has_field_token(q)
      [] k = 2 -> looks_like_isbn(isbn_digits(q))
      [] k = 3 -> re_match_by(q).ok
      [] k = 4 -> re_match_comma(q).ok
      [] k = 5 -> TRUE

RuleOutput(k, q) ==
    CASE k = 1 -> q
      [] k = 2 -> "isbn:" \o isbn_digits(q)
      [] k = 3 -> title_author_query(strip(group(q, re_match_by(q), 1)),
                                     strip(group(q, re_match_by(q), 2)))
      [] k = 4 -> title_author_query(strip(group(q, re_match_comma(q), 1)),
                                     strip(group(q, re_match_comma(q), 2)))
      [] k = 5 -> default_query(q)

\* The lowest-numbered rule, from rule `from` on, whose condition q satisfies.
RECURSIVE FirstRuleFrom(_, _)
FirstRuleFrom(from, q) ==
    IF RuleMatches(from, q) THEN from ELSE FirstRuleFrom(from + 1, q)

\* C1: the rules are applied in the order token, ISBN, 'by', comma, default
\* and the first match wins: the query string returned is the output of the
\* lowest-numbered rule whose condition the input satisfies.
C1_FirstMatchWins ==
    Built => q_string = RuleOutput(FirstRuleFrom(1, Trimmed), Trimmed)

\* C1 witness: an input that satisfies the ISBN test and the 'by' pattern and
\* the comma pattern at once was answered with the isbn form.
C1_Witness ==
    /\ pc = "built"
    /\ ~RuleMatches(1, Trimmed)
    /\ RuleMatches(2, Trimmed) /\ RuleMatches(3, Trimmed) /\ RuleMatches(4, Trimmed)
    /\ q_string = "isbn:" \o isbn_digits(Trimmed)

\* The text contains one of the four field tokens, in any letter case.
ContainsFieldToken(s) ==
    \E tok \in {"intitle:", "inauthor:", "isbn:", "subject:"} :
        \E i \in 1..Len(s) :
            /\ i + Len(tok) - 1 <= Len(s)
            /\ \A j \in 1..Len(tok) : lower_char(Ch(s, i + j - 1)) = Ch(tok, j)

\* C2 as stated: an input that contains a field token is returned unchanged
\* as the query string, whatever else it contains, surrounding white space
\* included.
C2_PassThroughUnchanged ==
    (pc = "built" /\ ContainsFieldToken(raw_query)) => q_string = raw_query

\* C2 as amended: an input that contains a field token is returned with its
\* surrounding white space removed and otherwise unchanged.
C2_PassThroughTrimmed ==
    (pc = "built" /\ ContainsFieldToken(raw_query)) => q_string = strip(raw_query)

\* C2 witness: a token in mixed case, with ten digits, a comma and a leading
\* blank around it, came back trimmed.
C2_Witness ==
    /\ pc = "built"
    /\ ContainsFieldToken(raw_query)
    /\ ~contains(raw_query, "isbn:") /\ ~contains(raw_query, "intitle:")
    /\ ~contains(raw_query, "inauthor:") /\ ~contains(raw_query, "subject:")
    /\ contains(raw_query, ",")
    /\ IsSpace(Ch(raw_query, 1))
    /\ q_string = strip(raw_query)
    /\ q_string # raw_query

\* The characters of s at the indices in keep, in order.
RECURSIVE Pick(_, _, _)
Pick(s, keep, i) ==
    IF i > Len(s) THEN ""
    ELSE (IF i \in keep THEN Ch(s, i) ELSE "") \o Pick(s, keep, i + 1)

IsX(c) == c \in {"X", "x"}

\* C3 as stated: every non-digit is removed, an X or x staying only when it
\* trails what is kept (no digit and no other X follows it).
TrailingXDigits(q) ==
    Pick(q, {i \in 1..Len(q) :
                \/ isdigit(Ch(q, i))
                \/ (IsX(Ch(q, i))
                    /\ \A j \in (i + 1)..Len(q) : ~isdigit(Ch(q, j)) /\ ~IsX(Ch(q, j)))}, 1)

\* C3 as amended: every X and x stays, wherever it is.
EveryXDigits(q) ==
    Pick(q, {i \in 1..Len(q) : isdigit(Ch(q, i)) \/ IsX(Ch(q, i))}, 1)

\* Length 10 or 13, digits up to the last character, the last a digit or an X.
IsbnShaped(d) ==
    /\ Len(d) = 10 \/ Len(d) = 13
    /\ \A i \in 1..(Len(d) - 1) : isdigit(Ch(d, i))
    /\ isdigit(Ch(d, Len(d))) \/ IsX(Ch(d, Len(d)))

\* C3 as stated: without a field token, isbn:<digits> is returned exactly when
\* the digits (with a trailing X only) are ISBN-shaped; otherwise the later
\* rules decide.
C3_TrailingXOnly ==
    (pc = "built" /\ ~ContainsFieldToken(Trimmed)) =>
        IF IsbnShaped(TrailingXDigits(Trimmed))
        THEN q_string = "isbn:" \o TrailingXDigits(Trimmed)
        ELSE q_string = RuleOutput(FirstRuleFrom(3, Trimmed), Trimmed)

\* C3 as amended: the same with every X and x kept, so that an X before the
\* last kept character makes the input no ISBN.
C3_EveryXKept ==
    (pc = "built" /\ ~ContainsFieldToken(Trimmed)) =>
        IF IsbnShaped(EveryXDigits(Trimmed))
        THEN q_string = "isbn:" \o EveryXDigits(Trimmed)
        ELSE q_string = RuleOutput(FirstRuleFrom(3, Trimmed), Trimmed)

\* C3 witness: ten digits with an X before them, ISBN-shaped once that X is
\* dropped, were not taken for an ISBN and got the default form.
C3_Witness ==
    /\ pc = "built"
    /\ ~ContainsFieldToken(Trimmed)
    /\ IsbnShaped(TrailingXDigits(Trimmed))
    /\ ~IsbnShaped(EveryXDigits(Trimmed))
    /\ q_string = default_query(Trimmed)

\* No line break in s.
SingleLine(s) == \A i \in 1..Len(s) : Ch(s, i) # "\n"

\* How many white-space characters end just before position p.
RECURSIVE space_run_back(_, _)
space_run_back(q, p) ==
    IF p > 1 /\ IsSpace(Ch(q, p - 1)) THEN 1 + space_run_back(q, p - 1) ELSE 0

\* The ways to read q as <left> SEP <right>: the pairs <<left, right>> of
\* non-empty single-line texts with, between them, the separator sep (in any
\* letter case) inside white space, at least `least` characters on each side.
SplitsAt(q, sep, least) ==
    UNION {
        {<<SubSeq(q, 1, a - 1 - k), SubSeq(q, a + Len(sep) + m, Len(q))>> :
            k \in least..space_run_back(q, a), m \in least..space_run(q, a + Len(sep))}
        : a \in {x \in 1..(Len(q) - Len(sep) + 1) :
                    lower(SubSeq(q, x, x + Len(sep) - 1)) = sep}}

Forms(q, sep, least) ==
    {f \in SplitsAt(q, sep, least) :
        f[1] # "" /\ f[2] # "" /\ SingleLine(f[1]) /\ SingleLine(f[2])}

\* A part without its optional surrounding quotes and surrounding white space.
Unquoted(x) ==
    LET a == IF Len(x) > 1 /\ Ch(x, 1) = Quote THEN SubSeq(x, 2, Len(x)) ELSE x
    IN  IF Len(a) > 1 /\ Ch(a, Len(a)) = Quote THEN SubSeq(a, 1, Len(a) - 1) ELSE a

CleanPart(x) == strip(Unquoted(x))

\* intitle:"<title>"+inauthor:"<author>"
TitleAuthorForm(f) ==
    "intitle:\"" \o CleanPart(f[1]) \o "\"+inauthor:\"" \o CleanPart(f[2]) \o "\""

NoTokenNoIsbn(q) == ~ContainsFieldToken(q) /\ ~IsbnShaped(EveryXDigits(q))

\* C4: an input that rules 1-2 do not match and that reads <title> by <author>
\* (title and author single-line, 'by' in any letter case between white
\* space, optional quotes around either part) is answered with
\* intitle:"<title>"+inauthor:"<author>", the parts without their surrounding
\* quotes and white space. When the input reads so in several ways, the
\* answer is that of one of them.
C4_TitleByAuthor ==
    (pc = "built" /\ NoTokenNoIsbn(Trimmed) /\ Forms(Trimmed, "by", 1) # {}) =>
        \E f \in Forms(Trimmed, "by", 1) : q_string = TitleAuthorForm(f)

\* C4 witness: "Dune" BY "Frank Herbert", quoted on both sides and with an
\* upper-case BY, gave the Dune / Frank Herbert query.
C4_Witness ==
    /\ pc = "built"
    /\ raw_query = "\"Dune\" BY \"Frank Herbert\""
    /\ q_string = "intitle:\"Dune\"+inauthor:\"Frank Herbert\""

\* C5: an input that rules 1-3 do not match and that reads <title>, <author>
\* (non-empty single-line text on both sides of a comma) is answered with
\* intitle:"<title>"+inauthor:"<author>"; and for plain words <title> and
\* <author> the answer is the one '<title> by <author>' gets.
PlainWords == {"Dune", "Frank Herbert"}

C5_TitleCommaAuthor ==
    /\ (pc = "built" /\ NoTokenNoIsbn(Trimmed) /\ Forms(Trimmed, "by", 1) = {}
        /\ Forms(Trimmed, ",", 0) # {}) =>
            \E f \in Forms(Trimmed, ",", 0) : q_string = TitleAuthorForm(f)
    /\ \A t \in PlainWords, a \in PlainWords :
          (pc = "built" /\ raw_query = t \o ", " \o a) =>
              q_string = build_books_query(t \o " by " \o a)[1]

\* C5 witness: 'Dune, Frank Herbert' gave the query 'Dune by Frank Herbert' gives.
C5_Witness ==
    /\ pc = "built"
    /\ raw_query = "Dune, Frank Herbert"
    /\ q_string = "intitle:\"Dune\"+inauthor:\"Frank Herbert\""
    /\ q_string = build_books_query("Dune by Frank Herbert")[1]

\* C6: an input q (trimmed, as build_books_query names it) with no field
\* token, not an ISBN, not of the 'by' form and not of the comma form is
\* answered with exactly intitle:"<q>"+<q>; and every answer has one of the
\* five shapes.
C6_Default ==
    pc = "built" =>
        /\ (NoTokenNoIsbn(Trimmed) /\ Forms(Trimmed, "by", 1) = {}
            /\ Forms(Trimmed, ",", 0) = {}) =>
                q_string = "intitle:\"" \o Trimmed \o "\"+" \o Trimmed
        /\ \/ ContainsFieldToken(Trimmed) /\ q_string = Trimmed
           \/ q_string = "isbn:" \o EveryXDigits(Trimmed)
           \/ \E f \in Forms(Trimmed, "by", 1) \cup Forms(Trimmed, ",", 0) :
                 q_string = TitleAuthorForm(f)
           \/ q_string = "intitle:\"" \o Trimmed \o "\"+" \o Trimmed

\* C6 witness: two plain words gave the default form.
C6_Witness ==
    /\ pc = "built"
    /\ raw_query = "Dune Dune"
    /\ q_string = "intitle:\"Dune Dune\"+Dune Dune"

\* ----------------------------------------------- reading a URL's parameters

\* The text of s before the first c (all of s without one), and after it.
RECURSIVE Before(_, _)
Before(s, c) ==
    IF s = "" \/ Head(s) = c THEN "" ELSE Head(s) \o Before(Tail(s), c)

After(s, c) == SubSeq(s, Len(Before(s, c)) + 2, Len(s))

\* The pieces of s between the characters c.
RECURSIVE Pieces(_, _)
Pieces(s, c) ==
    IF Len(Before(s, c)) = Len(s) THEN <<s>>
    ELSE <<Before(s, c)>> \o Pieces(After(s, c), c)

\* The <<name, value>> pairs of the query part of url, values still encoded.
UrlParams(url) ==
    LET pieces == Pieces(After(url, "?"), "&")
    IN  [i \in 1..Len(pieces) |-> <<Before(pieces[i], "="), After(pieces[i], "=")>>]

\* Percent-decoding, as the server receiving the URL does it.
RECURSIVE Decoded(_)
Decoded(s) ==
    IF s = "" THEN ""
    ELSE IF Head(s) = "%"
         THEN (CHOOSE c \in DOMAIN PercentCode : PercentCode[c] = SubSeq(s, 1, 3))
              \o Decoded(SubSeq(s, 4, Len(s)))
         ELSE Head(s) \o Decoded(Tail(s))

FixedParams ==
    {<<"maxResults", "40">>, <<"projection", "full">>,
     <<"orderBy", "newest">>, <<"printType", "books">>}

\* Exactly one entry of the sequence of pairs has the name, and it has the value.
OnceWith(pairs, name, value) ==
    /\ Cardinality({i \in 1..Len(pairs) : pairs[i][1] = name}) = 1
    /\ \E i \in 1..Len(pairs) : pairs[i] = <<name, value>>

\* C7: whichever rule answered, the mapping build_books_query returns carries
\* maxResults=40, projection=full, orderBy=newest and printType=books, and
\* the URL search_books builds has each of the four exactly once and exactly
\* one q, whose (decoded) value is the query string built.
C7_FixedParams ==
    /\ pc \in {"built", "fetching"} =>
          \A fp \in FixedParams : OnceWith(params, fp[1], fp[2])
    /\ pc = "fetching" =>
          LET sent == UrlParams(api_url)
          IN  /\ \A fp \in FixedParams : OnceWith(sent, fp[1], fp[2])
              /\ Cardinality({i \in 1..Len(sent) : sent[i][1] = "q"}) = 1
              /\ \A i \in 1..Len(sent) : sent[i][1] = "q" => Decoded(sent[i][2]) = q_string

\* C7 witness: a search for a title and author, with an API key configured,
\* sent the quoted query string once, the four fixed parameters and the key.
C7_Witness ==
    /\ pc = "fetching"
    /\ raw_query = "Dune by Frank Herbert"
    /\ api_url = "https://www.googleapis.com/books/v1/volumes?q="
                 \o "intitle%3A%22Dune%22%2Binauthor%3A%22Frank%20Herbert%22"
                 \o "&maxResults=40&projection=full&orderBy=newest&printType=books&key=KEY"

\* ======================================================================
\* Properties of the normaliser (checked under SpecBook)
\* ======================================================================

\* get_book_data returned a record.
Normalized == bpc = "done" /\ book.kind = "book"

\* item[a][b] when item is a dict holding a dict under a that holds b, else Absent.
Nested(it, a, b) ==
    IF it.kind = "dict" /\ a \in DOMAIN it.val /\ it.val[a].kind = "dict"
       /\ b \in DOMAIN it.val[a].val
    THEN it.val[a].val[b]
    ELSE Absent

SourceIsFree(it) ==
    \/ Nested(it, "saleInfo", "saleability") = Str("FREE")
    \/ Nested(it, "accessInfo", "viewability") = Str("ALL_PAGES")

\* C8: in every record get_book_data produces, is_free is true if and only
\* if the item's saleInfo.saleability is "FREE" or its
\* accessInfo.viewability is "ALL_PAGES".
C8_IsFree ==
    Normalized => (book.val.is_free <=> SourceIsFree(item))

\* C8 witness: an item not for sale but viewable in full came out free.
C8_Witness ==
    /\ Normalized
    /\ Nested(item, "saleInfo", "saleability") = Str("NOT_FOR_SALE")
    /\ Nested(item, "accessInfo", "viewability") = Str("ALL_PAGES")
    /\ book.val.is_free

\* The item has viewable pages: a viewability that is not empty and not NO_PAGES.
SourceViewable(it) ==
    LET v == Nested(it, "accessInfo", "viewability")
    IN  v.kind = "str" /\ v.val # "" /\ v.val # "NO_PAGES"

\* The item's id, when it is a non-empty string.
HasId(it) ==
    it.kind = "dict" /\ "id" \in DOMAIN it.val
    /\ it.val["id"].kind = "str" /\ it.val["id"].val # ""

ReaderUrl(it) ==
    Str("https://play.google.com/books/reader?id="
        \o (IF HasId(it) THEN it.val["id"].val ELSE ""))

NonEmpty(v) == v.kind = "str" /\ v.val # ""

\* The first non-empty of previewLink, webReaderLink, canonicalVolumeLink is
\* link; with none of them non-empty, link is not a non-empty text either.
IsFirstLink(it, link) ==
    LET p == Nested(it, "volumeInfo", "previewLink")
        w == Nested(it, "accessInfo", "webReaderLink")
        c == Nested(it, "volumeInfo", "canonicalVolumeLink")
    IN  IF NonEmpty(p) THEN link = p
        ELSE IF NonEmpty(w) THEN link = w
        ELSE IF NonEmpty(c) THEN link = c
        ELSE ~NonEmpty(link)

\* C9 as stated: for every item, preview_link is the reader URL of the item's
\* id whenever the book is free or has viewable pages, and otherwise the
\* first non-empty of the three links.
C9_ReaderUrlWhenFree ==
    Normalized =>
        IF SourceIsFree(item) \/ SourceViewable(item)
        THEN book.val.preview_link = ReaderUrl(item)
        ELSE IsFirstLink(item, book.val.preview_link)

\* C9 as amended: that holds of the items with a non-empty id; an item
\* without one gets the first non-empty of the three links even when it is
\* free or viewable.
C9_ReaderUrlWhenFreeWithId ==
    Normalized =>
        IF HasId(item) /\ (SourceIsFree(item) \/ SourceViewable(item))
        THEN book.val.preview_link = ReaderUrl(item)
        ELSE IsFirstLink(item, book.val.preview_link)

\* C9 witness: a free item without an id got its webReaderLink, the first
\* non-empty of the three links, for want of a reader URL.
C9_Witness ==
    /\ Normalized
    /\ Nested(item, "saleInfo", "saleability") = Str("FREE")
    /\ ~HasId(item)
    /\ ~NonEmpty(Nested(item, "volumeInfo", "previewLink"))
    /\ NonEmpty(Nested(item, "volumeInfo", "canonicalVolumeLink"))
    /\ NonEmpty(Nested(item, "accessInfo", "webReaderLink"))
    /\ book.val.preview_link = Nested(item, "accessInfo", "webReaderLink")
    /\ book.val.is_free

\* C10: get_book_data never raises: whatever is absent, null or of an
\* unexpected type in the item, it returns a record.
C10_NeverRaises ==
    bpc = "done" => book.kind = "book"

\* The authors field as the item provides it, Absent when the item has none.
SourceAuthors(it) == Nested(it, "volumeInfo", "authors")

\* The first n entries of l with ", " between them.
RECURSIVE Joined(_, _)
Joined(l, n) ==
    IF n = 0 THEN ""
    ELSE IF n = 1 THEN l[1].val
    ELSE Joined(l, n - 1) \o ", " \o l[n].val

\* C11: the author of the record is the authors list joined with ", " when
\* authors is a list, the single provided value when authors is present but
\* not a list, and "Unknown Author" when authors is absent.
C11_Author ==
    Normalized =>
        LET a == SourceAuthors(item)
        IN  IF a = Absent THEN book.val.author = Str("Unknown Author")
            ELSE IF a.kind = "list" THEN book.val.author = Str(Joined(a.val, Len(a.val)))
            ELSE book.val.author = a

\* The three cases of C11 on the items whose authors field is not null.
C11_AuthorOfGivenText ==
    (Normalized /\ SourceAuthors(item) # Null) =>
        LET a == SourceAuthors(item)
        IN  IF a = Absent THEN book.val.author = Str("Unknown Author")
            ELSE IF a.kind = "list" THEN book.val.author = Str(Joined(a.val, Len(a.val)))
            ELSE book.val.author = a

\* The item's image link under the i-th key of the priority order, Absent
\* when the item has none.
SourceImage(it, i) ==
    IF it.kind = "dict" /\ "volumeInfo" \in DOMAIN it.val
       /\ it.val["volumeInfo"].kind = "dict"
    THEN Nested(it.val["volumeInfo"], "imageLinks", ImageKeys[i])
    ELSE Absent

\* C12: the cover of the record is the first present image link in the order
\* extraLarge, large, medium, small, thumbnail, smallThumbnail, and null when
\* no image link is present.
C12_FirstPresentCover ==
    Normalized =>
        IF \A i \in 1..6 : ~NonEmpty(SourceImage(item, i))
        THEN book.val.cover = Null
        ELSE \E i \in 1..6 :
                /\ NonEmpty(SourceImage(item, i))
                /\ \A j \in 1..(i - 1) : ~NonEmpty(SourceImage(item, j))
                /\ book.val.cover = SourceImage(item, i)

\* C12 witness: of a large and a thumbnail link, both given, the large one
\* became the cover.
C12_Witness ==
    /\ Normalized
    /\ NonEmpty(SourceImage(item, 2))
    /\ NonEmpty(SourceImage(item, 5))
    /\ book.val.cover = SourceImage(item, 2)
    /\ book.val.cover # SourceImage(item, 5)

\* ======================================================================
\* Properties of the search request (checked under SpecQuery)
\* ======================================================================

\* Nothing but white space in s, the empty text included.
AllSpace(s) == \A i \in 1..Len(s) : Ch(s, i) \in {" ", "\t", "\n", "\r"}

\* C13: when the q of a search request is empty or white space only,
\* search_books answers with an empty list and has called neither
\* build_books_query nor fetch_api_data.
C13_EmptyShortCircuit ==
    (AllSpace(raw_query) /\ pc \notin {"start", "built"}) =>
        /\ response = [status |-> 200, body |-> <<>>]
        /\ calls = <<>>
        /\ api_url = ""

\* C13 witness: a search for two blanks was answered with an empty list.
C13_Witness ==
    /\ raw_query = "  "
    /\ pc = "empty"
    /\ response = [status |-> 200, body |-> <<>>]
    /\ calls = <<>>

\* ======================================================================
\* Properties of the listing endpoints (checked under SpecListing)
\* ======================================================================

\* A listing request has been answered with a list.
Listed ==
    /\ route \in {"search_books", "related_books", "get_books_by_section", "api_shelf_books"}
    /\ response.status = 200

\* C14: every record a listing endpoint returns (search_books, related_books,
\* get_books_by_section, GET api_shelf_books) has a non-empty cover, whatever
\* the catalog answered.
C14_EveryRecordHasCover ==
    Listed => \A i \in 1..Len(response.body) : NonEmpty(response.body[i].val.cover)

\* The items list of the document search_books or related_books was handed,
\* when it is a dict with such a list.
HasItems == data.kind = "dict" /\ "items" \in DOMAIN data.val /\ data.val["items"].kind = "list"
FetchedItems == data.val["items"].val

\* C14 witness: the reader's shelf holds two books, the catalog had a cover
\* for one of them only, and that one alone was listed.
C14_Witness ==
    /\ route = "api_shelf_books"
    /\ response.status = 200
    /\ Len(shelf_books) = 2
    /\ Len(calls) = 2
    /\ calls[1].returned = "dict" /\ calls[2].returned = "dict"
    /\ Len(response.body) = 1
    /\ NonEmpty(response.body[1].val.cover)

\* The records, in order, of the items get_book_data does not fail on and
\* gives a cover.
RECURSIVE Expected(_)
Expected(items) ==
    IF items = <<>> THEN <<>>
    ELSE LET b == get_book_data(Head(items))
         IN  (IF b.kind = "book" /\ NonEmpty(b.val.cover) THEN <<b>> ELSE <<>>)
             \o Expected(Tail(items))

\* C15 for search_books alone: the items get_book_data fails on are passed
\* over and the others are returned.
C15_SearchSkipsMalformed ==
    (route = "search_books" /\ pc = "done" /\ HasItems) =>
        response = [status |-> 200, body |-> Expected(FetchedItems)]

\* C15: in search_books, related_books and get_books_by_section an item
\* whose normalization fails is skipped and the well-formed items are still
\* returned; a malformed item never makes the request fail.
C15_MalformedSkipped ==
    /\ (route \in {"search_books", "related_books"} /\ response # NoResponse /\ HasItems) =>
            response = [status |-> 200, body |-> Expected(FetchedItems)]
    /\ (route = "get_books_by_section" /\ response # NoResponse
        /\ calls # <<>> /\ calls[1].returned = "dict") =>
            response.status = 200

\* Every call of fetch_api_data the last step made came back, and none raised.
FetchNeverRaises ==
    \A i \in 1..Len(calls) :
        calls[i].fn = "fetch_api_data" => calls[i].returned # "raised"

\* search_books and related_books answer a fetch that came back null with an
\* empty list.
NullGivesEmptyList ==
    (route \in {"search_books", "related_books"}
     /\ calls # <<>> /\ calls[1].fn = "fetch_api_data" /\ calls[1].returned = "none") =>
        response = [status |-> 200, body |-> <<>>]

\* A step of get_books_by_section whose fetch came back null adds no book and
\* fails nothing; when it is the last step, the answer is the books collected
\* before it, cut to the limit.
NullKeepsCollected ==
    (lpc = "curated" /\ calls' # <<>> /\ calls'[1].returned = "none") =>
        /\ books' = books
        /\ response'.status # 500
        /\ lpc' = "idle" =>
              \E n \in 0..Len(books) :
                  /\ response' = [status |-> 200, body |-> SubSeq(books, 1, n)]
                  /\ n = Len(books) \/ n = args.limit

\* C16: fetch_api_data never raises: on an HTTP error status, a connection
\* error, a timeout or any other failure it returns null; and whenever it
\* returns null, search_books and related_books answer with an empty list and
\* get_books_by_section with only the books already collected.
C16_FetchFailureDegrades ==
    /\ [](FetchNeverRaises /\ NullGivesEmptyList)
    /\ [][NullKeepsCollected]_vars

\* C16 witness: the fallback fetch of a section request came back null after
\* a curated book had been collected, and that book was the answer.
C16_Witness ==
    /\ route = "get_books_by_section"
    /\ lpc = "idle"
    /\ calls # <<>> /\ calls[1].returned = "none"
    /\ Len(books) = 1
    /\ response = [status |-> 200, body |-> books]

\* C17: the list get_books_by_section returns holds no two books with the
\* same id, whatever the section, the limit and the catalog's answers.
C17_NoDuplicateIds ==
    (route = "get_books_by_section" /\ response.status = 200) =>
        \A i, j \in 1..Len(response.body) :
            i # j => response.body[i].val.id # response.body[j].val.id

\* C17 for step 1 alone: the curated picks are distinct by id.
C17_CuratedDistinct ==
    lpc = "curated" =>
    \A i, j \in 1..Len(books) : i # j => books[i].val.id # books[j].val.id

\* ======================================================================
\* Properties of the shelves API (checked under SpecShelves)
\* ======================================================================

\* The step serves a request to api_shelf_modify made by a logged-in user.
ModifyStep == route' = "api_shelf_modify" /\ is_authenticated

\* The shelf the request of the step names, when the requester owns it.
Named == {s \in shelves : s.id = args'.shelf_id /\ s.user_id = current_user}

\* Every default shelf is in the table after the step as it was before.
DefaultsKept == \A s \in shelves : s.is_default => s \in shelves'

Succeeded == response' = Json(200, [ok |-> TRUE])

NoBooksOn(s) == \A i \in 1..Len(shelf_books) : shelf_books[i].shelf_id # s.id

ShelfRequest ==
    /\ route' \in {"api_shelf_modify", "api_shelf_books", "api_shelf_book_delete"}
    /\ is_authenticated

\* The user a step's request is made as: the one who logs in, for a login.
Requester == IF route' = "login" THEN current_user' ELSE current_user

\* The rows of shelf_books that are on shelves of others than uid, in order.
RECURSIVE rows_of_others(_, _)
rows_of_others(rows, uid) ==
    IF rows = <<>> THEN <<>>
    ELSE (IF \E s \in shelves : s.id = Head(rows).shelf_id /\ s.user_id = uid
          THEN <<>> ELSE <<Head(rows)>>)
         \o rows_of_others(Tail(rows), uid)

\* The shelves of others than uid.
shelves_of_others(sh, uid) == {s \in sh : s.user_id # uid}

\* C19: a request that names a shelf the requesting user does not own is
\* answered 404 and changes neither shelves nor shelf_books, and no request
\* changes a shelf, or the books on a shelf, of a user other than the one it
\* is made as.
C19_OthersShelvesUntouched ==
    [][/\ (ShelfRequest /\ Named = {}) =>
              /\ response' = Json(404, [error |-> "not found"])
              /\ shelves' = shelves
              /\ shelf_books' = shelf_books
       /\ shelves_of_others(shelves', Requester)
             = shelves_of_others(shelves, Requester)
       /\ rows_of_others(shelf_books', Requester)
             = rows_of_others(shelf_books, Requester)]_vars

\* A request naming a shelf of another user, one with a book on it, has been
\* answered 404.
C19_Witness ==
    /\ route \in {"api_shelf_modify", "api_shelf_books", "api_shelf_book_delete"}
    /\ response = Json(404, [error |-> "not found"])
    /\ is_authenticated
    /\ \E s \in shelves :
          /\ s.id = args.shelf_id
          /\ s.user_id # current_user
          /\ \E i \in 1..Len(shelf_books) : shelf_books[i].shelf_id = s.id

\* ======================================================================
\* Properties of login (checked under SpecAccounts)
\* ======================================================================

\* The step serves a POST to /login with an email that is not blank.
LoginStep == route' = "login" /\ calls' # <<>>

\* The Gravatar probe of the step's request was answered 200.
ProbeFound == calls'[1].outcome = Returned(200)

\* C20 as stated: a POST to /login with a non-empty email whose Gravatar probe
\* returns 200 ends with a users row holding that email, the requester logged
\* in as that user and a redirect to home, whatever users held before, and a
\* POST whose probe fails creates no user and logs nobody in.
C20_LoginWithGravatar ==
    [][LoginStep =>
          IF ProbeFound
          THEN /\ \E u \in users' :
                     u.email = strip(args'.email) /\ current_user' = u.id
               /\ response' = Redirect("home")
          ELSE users' = users /\ current_user' = current_user]_vars

\* What does hold of login: a POST whose probe does not return 200 changes
\* nothing, a row that login adds has the md5 of the lowercased email as its
\* id, and nobody is logged in unless a row holds the email as it was sent.
C20_LoginByExactEmail ==
    [][LoginStep =>
          /\ ~ProbeFound => UNCHANGED dvars
          /\ \A u \in users' :
                (\A v \in users : v.id # u.id) =>
                    u = new_user(strip(args'.email)) /\ u.id = md5(lower(u.email))
          /\ response' = Redirect("home") <=>
                /\ ProbeFound
                /\ \E u \in users' :
                      u.email = strip(args'.email) /\ current_user' = u.id]_vars

====
